---- MODULE Spec2Model ----
(***************************************************************************)
(* Terminal registry (TerminalDiscovery), command router (CommandRouter)   *)
(* and the front-ends that call them, from src/terminal_management and the *)
(* voice_* front-end scripts.                                              *)
(*                                                                         *)
(* Python strings are TLA+ strings; str.lower(), "in", startswith are      *)
(* computed character by character.  Python None is the string None for    *)
(* string fields and 0 for window_number (discovery numbers windows from   *)
(* 1, so 0 never denotes a real window).                                   *)
(***************************************************************************)
EXTENDS Integers, Sequences, FiniteSets, TLC

(***************************************************************************)
(* Bounds of the model.                                                    *)
(***************************************************************************)
MaxTerminalWindows == 1
MaxWarpWindows == 1
MaxAge == 5
MaxHistory == 1

(***************************************************************************)
(* Strings.                                                                *)
(***************************************************************************)
None == "<None>"

UpperAlphabet == "ABCDEFGHIJKLMNOPQRSTUVWXYZ"
LowerAlphabet == "abcdefghijklmnopqrstuvwxyz"
Digits == "0123456789"

\* the characters of s, as a sequence of one-character strings
Chars(s) == [i \in 1..Len(s) |-> SubSeq(s, i, i)]

\* position of the one-character string c in s, 0 when absent
IndexIn(c, s) ==
    LET at == {i \in 1..Len(s) : SubSeq(s, i, i) = c}
    IN  IF at = {} THEN 0 ELSE CHOOSE i \in at : \A j \in at : i <= j

LowerOf == [c \in {Chars(UpperAlphabet)[i] : i \in 1..26} |->
                Chars(LowerAlphabet)[IndexIn(c, UpperAlphabet)]]

UpperOf == [c \in {Chars(LowerAlphabet)[i] : i \in 1..26} |->
                Chars(UpperAlphabet)[IndexIn(c, LowerAlphabet)]]

LowerChar(c) == IF c \in DOMAIN LowerOf THEN LowerOf[c] ELSE c

UpperChar(c) == IF c \in DOMAIN UpperOf THEN UpperOf[c] ELSE c

RECURSIVE LowerByChar(_)
\* str.lower()
LowerByChar(s) == IF s = "" THEN "" ELSE LowerChar(Head(s)) \o LowerByChar(Tail(s))

\* strings whose lower-case form is computed once and kept
LowerKept ==
    {"local", "Local", "Terminal:1", "Terminal:2", "iTerm2:S1", "Warp:1", "Warp:2",
     "VSCode:integrated", "Terminal", "iTerm2", "Warp", "Visual Studio Code",
     "Terminal 1", "Terminal 2", "Warp 1", "Warp 2", "iTerm2 - zsh",
     "Visual Studio Code - Integrated Terminal", "terminal:1", "terminal 2",
     "warp", "code", "vscode", "nosuch", "My Warp:1", "warp:1", "WARP:1",
     "my warp:1", "ls", "sudo rm -rf /tmp", "yes", "show files", "wipe temp",
     "in warp, wipe temp", "hello"}
LowerTable == [s \in LowerKept |-> LowerByChar(s)]

\* str.lower(), by table where the table has the string
Lower(s) == IF s \in LowerKept THEN LowerTable[s] ELSE LowerByChar(s)

RECURSIVE Upper(_)
\* str.upper()
Upper(s) == IF s = "" THEN "" ELSE UpperChar(Head(s)) \o Upper(Tail(s))

\* Python's  p in s  on strings
Contains(p, s) ==
    \/ p = ""
    \/ \E i \in 1..(Len(s) - Len(p) + 1) : SubSeq(s, i, i + Len(p) - 1) = p

\* s.startswith(p)
StartsWith(s, p) ==
    \/ p = ""
    \/ Len(p) <= Len(s) /\ SubSeq(s, 1, Len(p)) = p

\* s[:n]
Prefix(s, n) == IF Len(s) <= n THEN s ELSE SubSeq(s, 1, n)

\* str(n) for one decimal digit
DigitStr(n) == SubSeq(Digits, n + 1, n + 1)

\* Python truthiness of an optional string
Truthy(s) == s # None /\ s # ""

\* s[n:]
From(s, n) == IF n >= Len(s) THEN "" ELSE SubSeq(s, n + 1, Len(s))

\* s.strip(), the whitespace being blanks
Strip(s) ==
    LET kept == {i \in 1..Len(s) : SubSeq(s, i, i) # " "}
    IN  IF kept = {} THEN ""
        ELSE SubSeq(s, CHOOSE i \in kept : \A j \in kept : i <= j,
                       CHOOSE i \in kept : \A j \in kept : i >= j)

\* s.split(",", 1)
SplitAtComma(s) ==
    LET at == IndexIn(",", s)
    IN  IF at = 0 THEN <<s>> ELSE <<Prefix(s, at - 1), From(s, at)>>

(***************************************************************************)
(* terminal_models.py                                                      *)
(***************************************************************************)
TERMINAL == "Terminal"
ITERM2 == "iTerm2"
VSCODE == "Visual Studio Code"
WARP == "Warp"
UNKNOWN == "Unknown"

NoSessionInfo == [session_id |-> None, window_number |-> 0, is_remote |-> FALSE]

TerminalWindow(id, app_name, app_type, title, process_name, session_info, window_number) ==
    [id |-> id, app_name |-> app_name, app_type |-> app_type,
     window_title |-> title, process_name |-> process_name,
     user_alias |-> None, session_info |-> session_info,
     window_number |-> window_number]

\* the absent TerminalInfo / TerminalWindow (Python None)
NoWindow == TerminalWindow(None, None, UNKNOWN, None, None, NoSessionInfo, 0)

display_name(w) ==
    IF Truthy(w.user_alias) THEN w.user_alias
    ELSE IF w.window_number # 0 THEN w.app_name \o " " \o DigitStr(w.window_number)
    ELSE w.app_name \o " - " \o Prefix(w.window_title, 30)

is_remote(w) ==
    IF ~Truthy(w.process_name) THEN FALSE
    ELSE Contains("ssh", Lower(w.process_name)) \/ w.session_info.is_remote

\* TerminalTarget(identifier, terminal_window)
TerminalTarget(identifier, w) ==
    [identifier |-> identifier, terminal_window |-> w,
     is_local |-> Lower(identifier) \in {"local", "current", "here"}]

(***************************************************************************)
(* State.                                                                  *)
(***************************************************************************)
VARIABLES
    cache_age,          \* time.time() - TerminalDiscovery.last_discovery, in seconds
    cached_terminals,   \* TerminalDiscovery.cached_terminals, in insertion order
    user_aliases,       \* TerminalDiscovery.user_aliases, <<alias, id>> in insertion order
    current_target,     \* CommandRouter.current_target
    command_history,    \* CommandRouter.command_history, id -> sequence
    last                \* the last call made: its name, arguments, result and effects

registryVars == <<cache_age, cached_terminals, user_aliases>>
routerVars == <<current_target, command_history>>
vars == <<cache_age, cached_terminals, user_aliases, current_target, command_history,
          last>>

discovery_interval == 5

(***************************************************************************)
(* applescript_bridge.py: what each backend enumerates.  env is what the    *)
(* applications answer at the time of the call: termCount the window count *)
(* of Terminal.app, itermSession the unique id of iTerm2's current session *)
(* (None when iTerm2 is not running), warpCount the window count of Warp   *)
(* (0 when it is not running), vscodeUp whether Visual Studio Code runs.   *)
(***************************************************************************)
\* the answer of the window script for window i of Terminal.app: the custom
\* title of its first tab, for an env that tells the titles (termTitles, in
\* Terminal.app's window order), and the script's default otherwise
window_title(env, i) ==
    IF "termTitles" \in DOMAIN env THEN env.termTitles[i]
    ELSE "Terminal Window " \o DigitStr(i)

get_terminal_windows(env) ==
    [i \in 1..env.termCount |->
        TerminalWindow("Terminal:" \o DigitStr(i), "Terminal", TERMINAL,
                       window_title(env, i), None, NoSessionInfo, i)]

get_iterm2_sessions(env) ==
    IF env.itermSession = None THEN <<>>
    ELSE <<TerminalWindow("iTerm2:" \o env.itermSession, "iTerm2", ITERM2, "zsh", None,
                          [NoSessionInfo EXCEPT !.session_id = env.itermSession], 0)>>

get_warp_windows(env) ==
    [i \in 1..env.warpCount |->
        TerminalWindow("Warp:" \o DigitStr(i), "Warp", WARP,
                       "Warp Window " \o DigitStr(i), None,
                       [NoSessionInfo EXCEPT !.window_number = i], i)]

(***************************************************************************)
(* Python dict kept as a sequence of <<key, value>> in insertion order.    *)
(***************************************************************************)
DictHas(d, k) == \E i \in 1..Len(d) : d[i][1] = k

DictGet(d, k) ==
    IF DictHas(d, k) THEN d[CHOOSE i \in 1..Len(d) : d[i][1] = k][2] ELSE None

\* d[k] = v : an existing key keeps its place, a new key goes last
DictSet(d, k, v) ==
    IF DictHas(d, k)
    THEN [i \in 1..Len(d) |-> IF d[i][1] = k THEN <<k, v>> ELSE d[i]]
    ELSE Append(d, <<k, v>>)

RECURSIVE DictDel(_, _)
\* del d[k]
DictDel(d, k) ==
    IF d = <<>> THEN <<>>
    ELSE IF Head(d)[1] = k THEN DictDel(Tail(d), k)
    ELSE <<Head(d)>> \o DictDel(Tail(d), k)

\* first key, in insertion order, whose value is v; None when there is none
FirstKeyOf(d, v) ==
    LET at == {i \in 1..Len(d) : d[i][2] = v}
    IN  IF at = {} THEN None ELSE d[CHOOSE i \in at : \A j \in at : i <= j][1]

(***************************************************************************)
(* terminal_discovery.py                                                   *)
(***************************************************************************)
\* the alias loop of one discovered window (Terminal.app, iTerm2, Warp)
ApplyAlias(aliases, w) ==
    IF \E i \in 1..Len(aliases) : aliases[i][2] = w.id
    THEN [w EXCEPT !.user_alias = FirstKeyOf(aliases, w.id)]
    ELSE w

vscode_terminal(aliases) ==
    [TerminalWindow("VSCode:integrated", "Visual Studio Code", VSCODE,
                    "Integrated Terminal", None, NoSessionInfo, 0)
        EXCEPT !.user_alias = DictGet(aliases, "VSCode:integrated")]

\* the bridge call raises an exception, for an env that tells which calls do
\* (raises)
Raises(env, call) == "raises" \in DOMAIN env /\ call \in env.raises

\* a variant of Tried in which the exception of one call ends the whole refresh
Tried_any_fault(env, call, windows) ==
    IF "raises" \in DOMAIN env /\ env.raises # {} THEN <<>> ELSE windows

\* what one try block of the refresh adds to the list: the windows the call
\* enumerates, with their aliases, and nothing when the call raises
Tried(env, call, windows) == IF Raises(env, call) THEN <<>> ELSE windows

\* the refresh branch: one enumeration per backend, aliases re-applied
Discover(aliases, env) ==
    Tried(env, "get_terminal_windows",
          [i \in 1..Len(get_terminal_windows(env)) |->
              ApplyAlias(aliases, get_terminal_windows(env)[i])])
    \o Tried(env, "get_iterm2_sessions",
             [i \in 1..Len(get_iterm2_sessions(env)) |->
                 ApplyAlias(aliases, get_iterm2_sessions(env)[i])])
    \o Tried(env, "get_warp_windows",
             [i \in 1..Len(get_warp_windows(env)) |->
                 ApplyAlias(aliases, get_warp_windows(env)[i])])
    \o Tried(env, "is_application_running",
             IF env.vscodeUp THEN <<vscode_terminal(aliases)>> ELSE <<>>)

AdapterCalls ==
    <<"get_terminal_windows", "get_iterm2_sessions", "get_warp_windows",
      "is_application_running">>

\* the registry's fields as one value, so that calls compose
Reg == [cache |-> cached_terminals, aliases |-> user_aliases, age |-> cache_age]

\* a variant of the cache test that still answers from the cache when the age
\* equals the interval
UseCache_at_interval(R, force_refresh) ==
    ~force_refresh /\ R.age <= discovery_interval

\* whether get_available_terminals answers from the cache
UseCache(R, force_refresh) ==
    ~force_refresh /\ R.age < discovery_interval

\* the result of a refresh that discovered terminals: cache and last_discovery
\* updated
Refreshed(R, terminals) ==
    [reg |-> [R EXCEPT !.cache = terminals, !.age = 0],
     terminals |-> terminals, calls |-> AdapterCalls]

\* returns the registry after the call, the list returned and the adapter calls made
get_available_terminals(R, env, force_refresh) ==
    IF UseCache(R, force_refresh)
    THEN [reg |-> R, terminals |-> R.cache, calls |-> <<>>]
    ELSE Refreshed(R, Discover(R.aliases, env))

\* cached_terminals.get(id)
CacheGet(cache, id) ==
    IF \E i \in 1..Len(cache) : cache[i].id = id
    THEN cache[CHOOSE i \in 1..Len(cache) : cache[i].id = id]
    ELSE NoWindow

\* the element of seq at the least index of hits, NoWindow when hits is empty
FirstWhere(seq, hits) ==
    IF hits = {} THEN NoWindow
    ELSE seq[CHOOSE i \in hits : \A j \in hits : i <= j]

IsDigit(c) == c # "" /\ IndexIn(c, Digits) # 0
LastChar(s) == IF s = "" THEN "" ELSE SubSeq(s, Len(s), Len(s))

AliasRule(R, name) == DictHas(R.aliases, Lower(name))
IdRule(terminals, name) ==
    LET name_lower == Lower(name)
    IN  FirstWhere(terminals,
                   {i \in 1..Len(terminals) : Lower(terminals[i].id) = name_lower})
FuzzyRule(terminals, name) ==
    LET name_lower == Lower(name)
    IN  FirstWhere(terminals, {i \in 1..Len(terminals) :
            \/ Contains(name_lower, Lower(display_name(terminals[i])))
            \/ Contains(name_lower, Lower(terminals[i].app_name))
            \/ StartsWith(Lower(display_name(terminals[i])), name_lower)})
OrdinalRule(terminals, name) ==
    IF StartsWith(Lower(name), "terminal") /\ IsDigit(LastChar(name))
    THEN FirstWhere(terminals, {i \in 1..Len(terminals) :
            /\ terminals[i].app_type = TERMINAL
            /\ terminals[i].window_number = IndexIn(LastChar(name), Digits) - 1})
    ELSE NoWindow
KindRule(terminals, name, synonyms, kind) ==
    IF Lower(name) \in synonyms
    THEN FirstWhere(terminals, {i \in 1..Len(terminals) : terminals[i].app_type = kind})
    ELSE NoWindow

\* the first element of found that is a window, NoWindow when none is
FirstFound(found) ==
    FirstWhere(found, {i \in 1..Len(found) : found[i] # NoWindow})

\* a variant of the rules after the alias rule that tries the fuzzy rule before
\* the id rule
ResolveUnaliased_fuzzy_first(terminals, name) ==
    FirstFound(<<FuzzyRule(terminals, name),
                 IdRule(terminals, name),
                 OrdinalRule(terminals, name),
                 KindRule(terminals, name, {"vscode", "vs code", "code"}, VSCODE),
                 KindRule(terminals, name, {"iterm", "iterm2"}, ITERM2),
                 KindRule(terminals, name, {"warp"}, WARP)>>)

\* the rules of get_terminal_by_name after the alias rule, in the code's order:
\* the first rule that finds a window returns it
ResolveUnaliased(terminals, name) ==
    FirstFound(<<IdRule(terminals, name),
                 FuzzyRule(terminals, name),
                 OrdinalRule(terminals, name),
                 KindRule(terminals, name, {"vscode", "vs code", "code"}, VSCODE),
                 KindRule(terminals, name, {"iterm", "iterm2"}, ITERM2),
                 KindRule(terminals, name, {"warp"}, WARP)>>)

\* get_terminal_by_name after its get_available_terminals call returned got
ResolveIn(got, name) ==
    [reg |-> got.reg, calls |-> got.calls,
     result |->
        IF AliasRule(got.reg, name)
        THEN CacheGet(got.reg.cache, DictGet(got.reg.aliases, Lower(name)))
        ELSE ResolveUnaliased(got.terminals, name)]

\* returns the registry after the call and the TerminalInfo found (NoWindow for None)
get_terminal_by_name(R, env, name) ==
    ResolveIn(get_available_terminals(R, env, FALSE), name)

\* set_terminal_alias after its get_available_terminals call returned got
SetAliasIn(got, terminal_id, alias) ==
    LET terminal_exists ==
            \E i \in 1..Len(got.terminals) : got.terminals[i].id = terminal_id
        old_alias == FirstKeyOf(got.reg.aliases, terminal_id)
        removed ==
            IF Truthy(old_alias) THEN DictDel(got.reg.aliases, old_alias)
            ELSE got.reg.aliases
        cache ==
            [i \in 1..Len(got.reg.cache) |->
                IF got.reg.cache[i].id = terminal_id
                THEN [got.reg.cache[i] EXCEPT !.user_alias = alias]
                ELSE got.reg.cache[i]]
    IN  IF ~terminal_exists
        THEN [reg |-> got.reg, calls |-> got.calls, result |-> FALSE]
        ELSE [reg |-> [got.reg EXCEPT
                          !.aliases = DictSet(removed, Lower(alias), terminal_id),
                          !.cache = cache],
              calls |-> got.calls, result |-> TRUE]

\* returns the registry after the call and whether the alias was set
set_terminal_alias(R, env, terminal_id, alias) ==
    SetAliasIn(get_available_terminals(R, env, FALSE), terminal_id, alias)

\* returns the registry after the call and whether an alias was removed
remove_terminal_alias(R, alias) ==
    LET alias_lower == Lower(alias)
        terminal_id == DictGet(R.aliases, alias_lower)
    IN  IF DictHas(R.aliases, alias_lower)
        THEN [reg |-> [R EXCEPT
                          !.aliases = DictDel(R.aliases, alias_lower),
                          !.cache = [i \in 1..Len(R.cache) |->
                                        IF R.cache[i].id = terminal_id
                                        THEN [R.cache[i] EXCEPT !.user_alias = None]
                                        ELSE R.cache[i]]],
              result |-> TRUE]
        ELSE [reg |-> R, result |-> FALSE]

(***************************************************************************)
(* applescript_bridge.py: delivery.  execute_script answers None (error,   *)
(* timeout), or the script's output; the answers of the scripts one send   *)
(* runs are the sequence r.                                                *)
(***************************************************************************)
ScriptAnswers == {None, "", "success", "error: x"}

\* in place of an answer: the bridge method raises, str(e) being Fault
Raise == "<raise>"
Fault == "adapter fault"

ScriptTruthy(a) == a # None /\ a # ""
ScriptSuccess(a) == ScriptTruthy(a) /\ StartsWith(a, "success")

\* one call into the bridge: the method, the addressed window and the payload
Delivery(method, id, payload) == [method |-> method, id |-> id, payload |-> payload]

send_to_warp_via_launch_config(w, command, r) == TRUE

\* [success, deliveries]: the bridge methods the router calls for window w
send_to_terminal_app(w, command, r) ==
    IF w.window_number = 0 THEN [success |-> FALSE, deliveries |-> <<>>]
    ELSE [success |-> ScriptSuccess(r[1]),
          deliveries |-> <<Delivery("send_to_terminal_app", w.id, command)>>]

send_to_iterm2(w, command, r) ==
    IF ~Truthy(w.session_info.session_id) THEN [success |-> FALSE, deliveries |-> <<>>]
    ELSE [success |-> ScriptSuccess(r[1]),
          deliveries |-> <<Delivery("send_to_iterm2_session", w.id, command)>>]

send_to_vscode(w, command, r) ==
    [success |-> ScriptTruthy(r[1]) /\ r[2] # None,
     deliveries |-> <<Delivery("send_to_vscode", w.id, command)>>]

send_to_warp_via_ui_scripting(w, command, r) ==
    ScriptTruthy(r[1]) /\ ScriptSuccess(r[2])

send_to_warp(w, command, r) ==
    IF send_to_warp_via_ui_scripting(w, command, r)
    THEN [success |-> TRUE,
          deliveries |-> <<Delivery("send_to_warp_via_ui_scripting", w.id, command)>>]
    ELSE [success |-> send_to_warp_via_launch_config(w, command, r),
          deliveries |-> <<Delivery("send_to_warp_via_ui_scripting", w.id, command),
                           Delivery("send_to_warp_via_launch_config", w.id, command)>>]

send_text_to_terminal_app(w, text, r) ==
    IF w.window_number = 0 THEN [success |-> FALSE, deliveries |-> <<>>]
    ELSE [success |-> ScriptSuccess(r[1]),
          deliveries |-> <<Delivery("send_text_to_terminal_app", w.id, text)>>]

send_text_to_iterm2(w, text, r) ==
    IF ~Truthy(w.session_info.session_id) THEN [success |-> FALSE, deliveries |-> <<>>]
    ELSE [success |-> ScriptSuccess(r[1]),
          deliveries |-> <<Delivery("send_text_to_iterm2_session", w.id, text)>>]

send_text_to_vscode(w, text, r) ==
    [success |-> ScriptTruthy(r[1]) /\ r[2] # None,
     deliveries |-> <<Delivery("send_text_to_vscode", w.id, text)>>]

send_text_to_warp(w, text, r) ==
    [success |-> send_to_warp_via_ui_scripting(w, text, r),
     deliveries |-> <<Delivery("send_to_warp_via_ui_scripting", w.id, text)>>]

(***************************************************************************)
(* command_router.py                                                       *)
(***************************************************************************)
dangerous_patterns ==
    <<"rm -rf /", "sudo rm -rf", "format", "mkfs", "> /dev/sda", "dd if=",
      "chmod -R 777 /">>

remote_warning_patterns == <<"rm -rf", "sudo", "chmod -R", "chown -R">>

\* for pattern in patterns: if pattern in command.lower()
PatternHit(patterns, command) ==
    \E i \in 1..Len(patterns) : Contains(patterns[i], Lower(command))

FirstPatternHit(patterns, command) ==
    patterns[CHOOSE i \in 1..Len(patterns) :
                /\ Contains(patterns[i], Lower(command))
                /\ \A j \in 1..(i - 1) : ~Contains(patterns[j], Lower(command))]

\* <<is_safe, warning_message>>
validate_command(command, terminal) ==
    IF PatternHit(dangerous_patterns, command)
    THEN <<FALSE, "Dangerous command detected: "
                  \o FirstPatternHit(dangerous_patterns, command)>>
    ELSE IF is_remote(terminal) /\ PatternHit(remote_warning_patterns, command)
    THEN <<FALSE, "Potentially dangerous command on remote session: "
                  \o FirstPatternHit(remote_warning_patterns, command)>>
    ELSE <<TRUE, "">>

LocalTarget == TerminalTarget("local", NoWindow)

\* a variant of FindCurrent that forgets to reset current_target when the target
\* has vanished
FindCurrent_keeps_stale(got, cur) ==
    LET found == FirstWhere(got.terminals,
                            {i \in 1..Len(got.terminals) : got.terminals[i].id = cur})
    IN  IF found # NoWindow
        THEN [reg |-> got.reg, cur |-> cur, target |-> TerminalTarget(cur, found),
              calls |-> got.calls, fallback_logged |-> FALSE]
        ELSE [reg |-> got.reg, cur |-> cur, target |-> LocalTarget,
              calls |-> got.calls, fallback_logged |-> TRUE]

\* get_current_target after its get_available_terminals call returned got: the
\* search for the window whose id is current_target, and the fallback
FindCurrent(got, cur) ==
    LET found == FirstWhere(got.terminals,
                            {i \in 1..Len(got.terminals) : got.terminals[i].id = cur})
    IN  IF found # NoWindow
        THEN [reg |-> got.reg, cur |-> cur, target |-> TerminalTarget(cur, found),
              calls |-> got.calls, fallback_logged |-> FALSE]
        ELSE [reg |-> got.reg, cur |-> "local", target |-> LocalTarget,
              calls |-> got.calls, fallback_logged |-> TRUE]

\* returns the target, the registry and current_target after the call, and whether
\* the fallback warning was logged
get_current_target(R, env, cur) ==
    IF cur = "local"
    THEN [reg |-> R, cur |-> cur, target |-> LocalTarget, calls |-> <<>>,
          fallback_logged |-> FALSE]
    ELSE FindCurrent(get_available_terminals(R, env, FALSE), cur)

\* a variant of TargetFound that falls back to local when the name is not found
TargetFound_resets_on_miss(found, cur) ==
    IF found.result # NoWindow
    THEN [reg |-> found.reg, cur |-> found.result.id, calls |-> found.calls,
          result |-> TRUE]
    ELSE [reg |-> found.reg, cur |-> "local", calls |-> found.calls, result |-> FALSE]

\* set_target after its get_terminal_by_name call returned found
TargetFound(found, cur) ==
    IF found.result # NoWindow
    THEN [reg |-> found.reg, cur |-> found.result.id, calls |-> found.calls,
          result |-> TRUE]
    ELSE [reg |-> found.reg, cur |-> cur, calls |-> found.calls, result |-> FALSE]

\* returns the registry and current_target after the call and the bool returned
set_target(R, env, cur, target_name) ==
    IF Lower(target_name) \in {"local", "current", "here"}
    THEN [reg |-> R, cur |-> "local", calls |-> <<>>, result |-> TRUE]
    ELSE TargetFound(get_terminal_by_name(R, env, target_name), cur)

HistoryLimit == 50

\* self.command_history.get(terminal_id, [])
get_command_history(hist, terminal_id) ==
    IF terminal_id \in DOMAIN hist THEN hist[terminal_id] ELSE <<>>

\* a variant of _add_to_history that keeps the oldest entries when the list is
\* full
_add_to_history_keeps_oldest(hist, terminal_id, command) ==
    LET appended == Append(get_command_history(hist, terminal_id), command)
        kept == IF Len(appended) > HistoryLimit
                THEN SubSeq(appended, 1, HistoryLimit)
                ELSE appended
    IN  [id \in DOMAIN hist \cup {terminal_id} |->
            IF id = terminal_id THEN kept ELSE hist[id]]

\* the list returned by the public get_command_history, and whether it is the
\* list the router holds (it is a copy)
HistoryCopy(hist, terminal_id) ==
    [entries |-> get_command_history(hist, terminal_id), shared |-> FALSE]

_add_to_history(hist, terminal_id, command) ==
    LET appended == Append(get_command_history(hist, terminal_id), command)
        kept == IF Len(appended) > HistoryLimit
                THEN SubSeq(appended, Len(appended) - HistoryLimit + 1, Len(appended))
                ELSE appended
    IN  [id \in DOMAIN hist \cup {terminal_id} |->
            IF id = terminal_id THEN kept ELSE hist[id]]

\* "Determine target" with an explicit target, get_terminal_by_name having
\* returned found
ExplicitTarget(found, cur, target) ==
    [reg |-> found.reg, cur |-> cur, calls |-> found.calls,
     window |-> found.result, fallback_logged |-> FALSE,
     early |-> IF found.result = NoWindow
               THEN <<FALSE, "Terminal '" \o target \o "' not found">>
               ELSE <<>>]

\* a variant of ImplicitTarget that has no branch for a local current target
ImplicitTarget_no_local_branch(got, local_message) ==
    [reg |-> got.reg, cur |-> got.cur, calls |-> got.calls,
     window |-> got.target.terminal_window,
     fallback_logged |-> got.fallback_logged,
     early |-> IF got.target.terminal_window = NoWindow
               THEN <<FALSE, "No valid target terminal">>
               ELSE <<>>]

\* "Determine target" with no explicit target, get_current_target having
\* returned got
ImplicitTarget(got, local_message) ==
    [reg |-> got.reg, cur |-> got.cur, calls |-> got.calls,
     window |-> got.target.terminal_window,
     fallback_logged |-> got.fallback_logged,
     early |-> IF got.target.is_local THEN <<FALSE, local_message>>
               ELSE IF got.target.terminal_window = NoWindow
               THEN <<FALSE, "No valid target terminal">>
               ELSE <<>>]

\* the "Determine target" and "Validate target" steps shared by route_command
\* and send_raw_text: the window to send to (NoWindow when the call returns
\* early), with the early return value
DetermineTarget(R, env, cur, target, local_message) ==
    IF Truthy(target)
    THEN ExplicitTarget(get_terminal_by_name(R, env, target), cur, target)
    ELSE ImplicitTarget(get_current_target(R, env, cur), local_message)

\* the dispatch on app_type of route_command
SendCommand(w, command, r) ==
    IF w.app_type = TERMINAL THEN send_to_terminal_app(w, command, r)
    ELSE IF w.app_type = ITERM2 THEN send_to_iterm2(w, command, r)
    ELSE IF w.app_type = VSCODE THEN send_to_vscode(w, command, r)
    ELSE send_to_warp(w, command, r)

\* the dispatch on app_type of send_raw_text
SendText(w, text, r) ==
    IF w.app_type = TERMINAL THEN send_text_to_terminal_app(w, text, r)
    ELSE IF w.app_type = ITERM2 THEN send_text_to_iterm2(w, text, r)
    ELSE IF w.app_type = VSCODE THEN send_text_to_vscode(w, text, r)
    ELSE send_text_to_warp(w, text, r)

SupportedKinds == {TERMINAL, ITERM2, VSCODE, WARP}

\* the state after a route_command or send_raw_text call that determined det:
\* the router's fields, the (success, message) returned, the deliveries made and
\* the validate_command calls made (neither body makes any)
Returned(det, hist, ret, deliveries) ==
    [reg |-> det.reg, cur |-> det.cur, hist |-> hist,
     fallback_logged |-> det.fallback_logged, window |-> det.window,
     deliveries |-> deliveries, validated |-> {}, ret |-> ret]

\* the bridge method called first raises
Raised(sent, r) == sent.deliveries # <<>> /\ r[1] = Raise

\* a variant of RouteTo that logs the command to the history when the send failed
\* too
RouteTo_logs_failures(det, hist, command, r) ==
    LET w == det.window
        sent == SendCommand(w, command, r)
    IN  IF det.early # <<>> THEN Returned(det, hist, det.early, <<>>)
        ELSE IF w.app_type \notin SupportedKinds
        THEN Returned(det, hist, <<FALSE, "Unsupported terminal type: " \o w.app_type>>,
                      <<>>)
        ELSE IF Raised(sent, r)
        THEN Returned(det, hist, <<FALSE, "Error sending command: " \o Fault>>,
                      <<sent.deliveries[1]>>)
        ELSE IF sent.success
        THEN Returned(det, _add_to_history(hist, w.id, command),
                      <<TRUE, "Command sent to " \o display_name(w)>>, sent.deliveries)
        ELSE Returned(det, _add_to_history(hist, w.id, command),
                      <<FALSE, "Failed to send command to " \o display_name(w)>>,
                      sent.deliveries)

\* route_command from "Validate target" on
RouteTo(det, hist, command, r) ==
    LET w == det.window
        sent == SendCommand(w, command, r)
    IN  IF det.early # <<>> THEN Returned(det, hist, det.early, <<>>)
        ELSE IF w.app_type \notin SupportedKinds
        THEN Returned(det, hist, <<FALSE, "Unsupported terminal type: " \o w.app_type>>,
                      <<>>)
        ELSE IF Raised(sent, r)
        THEN Returned(det, hist, <<FALSE, "Error sending command: " \o Fault>>,
                      <<sent.deliveries[1]>>)
        ELSE IF sent.success
        THEN Returned(det, _add_to_history(hist, w.id, command),
                      <<TRUE, "Command sent to " \o display_name(w)>>, sent.deliveries)
        ELSE Returned(det, hist,
                      <<FALSE, "Failed to send command to " \o display_name(w)>>,
                      sent.deliveries)

route_command(R, env, cur, hist, command, target, r) ==
    RouteTo(DetermineTarget(R, env, cur, target, "Use local execution"),
            hist, command, r)

\* send_raw_text from "Validate target" on
SendTextTo(det, hist, text, r) ==
    LET w == det.window
        sent == SendText(w, text, r)
    IN  IF det.early # <<>> THEN Returned(det, hist, det.early, <<>>)
        ELSE IF w.app_type \notin SupportedKinds
        THEN Returned(det, hist, <<FALSE, "Unsupported terminal type: " \o w.app_type>>,
                      <<>>)
        ELSE IF Raised(sent, r)
        THEN Returned(det, hist, <<FALSE, "Error sending text: " \o Fault>>,
                      <<sent.deliveries[1]>>)
        ELSE IF sent.success
        THEN Returned(det, _add_to_history(hist, w.id, "[TEXT] " \o text),
                      <<TRUE, "Text sent to " \o display_name(w) \o ": '" \o text
                              \o "'">>, sent.deliveries)
        ELSE Returned(det, hist,
                      <<FALSE, "Failed to send text to " \o display_name(w)>>,
                      sent.deliveries)

send_raw_text(R, env, cur, hist, text, target, r) ==
    SendTextTo(DetermineTarget(R, env, cur, target,
                               "Cannot send raw text to local terminal"),
               hist, text, r)

\* the static table of parse_contextual_command
target_aliases ==
    << <<"vs code", "VSCode:integrated">>, <<"vscode", "VSCode:integrated">>,
       <<"code", "VSCode:integrated">>, <<"terminal one", "Terminal:1">>,
       <<"terminal 1", "Terminal:1">>, <<"terminal two", "Terminal:2">>,
       <<"terminal 2", "Terminal:2">>, <<"iterm", "iTerm2">>,
       <<"main session", "iTerm2">>, <<"warp", "Warp:1">>, <<"warp 1", "Warp:1">>,
       <<"warp 2", "Warp:2">>, <<"warp tab", "Warp:1">>, <<"test tab", "Warp:1">>,
       <<"test", "Warp:1">> >>

\* the "in" pattern, get_terminal_by_name having returned found for the target
\* part
ContextualIn(found, target_part, command_part, query) ==
    IF found.result # NoWindow
    THEN [reg |-> found.reg, target |-> found.result.id, command |-> command_part]
    ELSE IF DictHas(target_aliases, target_part)
    THEN [reg |-> found.reg, target |-> DictGet(target_aliases, target_part),
          command |-> command_part]
    ELSE [reg |-> found.reg, target |-> None, command |-> query]

\* the "on" pattern, likewise
ContextualOn(found, command_part, query) ==
    IF found.result # NoWindow
    THEN [reg |-> found.reg, target |-> found.result.id, command |-> command_part]
    ELSE [reg |-> found.reg, target |-> None, command |-> query]

\* parse_contextual_command on the lower-cased query and its parts
ContextualParts(R, env, query, query_lower, parts) ==
    IF StartsWith(query_lower, "in ") /\ Len(parts) = 2
    THEN ContextualIn(get_terminal_by_name(R, env, Strip(From(parts[1], 3))),
                      Strip(From(parts[1], 3)), Strip(parts[2]), query)
    ELSE IF StartsWith(query_lower, "on ") /\ Len(parts) = 2
    THEN ContextualOn(get_terminal_by_name(R, env, Strip(From(parts[1], 3))),
                      Strip(parts[2]), query)
    ELSE [reg |-> R, target |-> None, command |-> query]

\* returns the registry after the call and the (target, command) pair, target
\* None when the query is no contextual command
parse_contextual_command(R, env, query) ==
    ContextualParts(R, env, query, Strip(Lower(query)),
                    SplitAtComma(Strip(Lower(query))))

(***************************************************************************)
(* The front-ends.  What a front-end step did is a record: the registry    *)
(* and router fields after it, whether it called route_command or          *)
(* send_raw_text (routed) and with what text (payload), the window that    *)
(* call determined, its deliveries, the (command, window id) pairs the     *)
(* front-end validated, whether the user confirmed explicitly, and the     *)
(* command executed locally (None for none).                               *)
(***************************************************************************)
NotRouted(R, cur, hist, validated, confirmed) ==
    [reg |-> R, cur |-> cur, hist |-> hist, routed |-> FALSE, payload |-> None,
     window |-> NoWindow, deliveries |-> <<>>, validated |-> validated,
     explicit_confirmation |-> confirmed, local_executed |-> None]

\* the outcome of a step that made the router call whose result is got; command
\* is what the front-end executes locally when the router answers "use local
\* execution" (None when it executes nothing)
RoutedAs(got, payload, validated, confirmed, command) ==
    [reg |-> got.reg, cur |-> got.cur, hist |-> got.hist, routed |-> TRUE,
     payload |-> payload, window |-> got.window, deliveries |-> got.deliveries,
     validated |-> validated, explicit_confirmation |-> confirmed,
     local_executed |->
        IF ~got.ret[1] /\ Contains("Use local execution", got.ret[2])
        THEN command ELSE None]

\* validate_command_safety returning True before it validates anything
SafetySkipped(R, cur) ==
    [reg |-> R, cur |-> cur, validated |-> {}, confirmed |-> FALSE, result |-> TRUE]

\* validate_command_safety from "Validate the command" on, explicit being the
\* answer to the explicit confirmation prompt
SafetyChecked(R, cur, command, target_window, explicit) ==
    LET is_safe == validate_command(command, target_window)[1]
    IN  IF target_window = NoWindow THEN SafetySkipped(R, cur)
        ELSE [reg |-> R, cur |-> cur, validated |-> {<<command, target_window.id>>},
              confirmed |-> ~is_safe /\ explicit, result |-> is_safe \/ explicit]

\* validate_command_safety for a contextual query, get_terminal_by_name having
\* returned terminal
SafetyOfNamed(terminal, cur, command, explicit) ==
    IF terminal.result # NoWindow
    THEN SafetyChecked(terminal.reg, cur, command, terminal.result, explicit)
    ELSE SafetySkipped(terminal.reg, cur)

\* validate_command_safety for a plain query, get_current_target having returned
\* current
SafetyOfCurrent(current, command, explicit) ==
    IF current.target.is_local
    THEN SafetySkipped(current.reg, current.cur)
    ELSE SafetyChecked(current.reg, current.cur, command,
                       current.target.terminal_window, explicit)

\* validate_command_safety after parse_contextual_command returned parsed
SafetyOfParsed(parsed, env, cur, command, explicit) ==
    IF Truthy(parsed.target)
    THEN SafetyOfNamed(get_terminal_by_name(parsed.reg, env, parsed.target),
                       cur, command, explicit)
    ELSE SafetyOfCurrent(get_current_target(parsed.reg, env, cur), command, explicit)

\* voice_exec_macos.py: validate_command_safety; returns the registry and current
\* target after the call, the pairs validated, whether the explicit prompt was
\* answered yes, and the bool returned
validate_command_safety(R, env, cur, command, original_query, explicit) ==
    SafetyOfParsed(parse_contextual_command(R, env, original_query), env, cur,
                   command, explicit)

\* execute_command_with_routing after parse_contextual_command returned parsed
ExecuteParsed(parsed, env, cur, hist, command, r, safety) ==
    IF Truthy(parsed.target)
    THEN RoutedAs(route_command(parsed.reg, env, cur, hist, parsed.command,
                                parsed.target, r),
                  parsed.command, safety.validated, safety.confirmed, command)
    ELSE RoutedAs(route_command(parsed.reg, env, cur, hist, command, None, r),
                  command, safety.validated, safety.confirmed, command)

\* voice_exec_macos.py: execute_command_with_routing, after the validation whose
\* result is safety
execute_command_with_routing(R, env, cur, hist, command, query, r, safety) ==
    ExecuteParsed(parse_contextual_command(R, env, query), env, cur, hist, command,
                  r, safety)

\* the cache age after the seconds a prompt waited
Aged(R, wait) ==
    [R EXCEPT !.age = IF @ + wait > MaxAge THEN MaxAge ELSE @ + wait]

\* session_mode after validate_command_safety returned safety: the
\* auto-confirmation prompt and the execution
SessionAfter(safety, env, hist, query, command, auto, wait, r) ==
    IF ~safety.result \/ ~auto
    THEN NotRouted(Aged(safety.reg, wait), safety.cur, hist, safety.validated,
                   safety.confirmed)
    ELSE execute_command_with_routing(Aged(safety.reg, wait), env, safety.cur, hist,
                                      command, query, r, safety)

\* voice_exec_macos.py: session_mode from "Get shell command" to the execution,
\* terminal routing enabled, for a query that is no session or management
\* command.  command is what get_shell_command answered for the query, explicit
\* and auto the answers to the two prompts, wait the seconds the prompts took.
session_mode(R, env, cur, hist, query, command, explicit, auto, wait, r) ==
    IF command = "# CONVERSATIONAL" \/ StartsWith(command, "# Could not map:")
    THEN NotRouted(R, cur, hist, {}, FALSE)
    ELSE SessionAfter(validate_command_safety(R, env, cur, command, query, explicit),
                      env, hist, query, command, auto, wait, r)

\* the switch_target action, set_target having returned switched
SwitchedTarget(switched, hist) ==
    NotRouted(switched.reg, switched.cur, hist, {}, FALSE)

\* the send_text action, get_terminal_by_name having returned terminal
SendTextFound(terminal, env, cur, hist, text_content, r) ==
    IF terminal.result # NoWindow
    THEN RoutedAs(send_raw_text(terminal.reg, env, cur, hist, text_content,
                                terminal.result.id, r),
                  text_content, {}, FALSE, None)
    ELSE NotRouted(terminal.reg, cur, hist, {}, FALSE)

\* voice_terminal_main.py: handle_voice_command on what parse_voice_command
\* returned, shell_command being what find_shell_command answers for the text
\* (None when it finds nothing)
handle_voice_command(R, env, cur, hist, parsed_command, shell_command, r) ==
    CASE parsed_command.action = "list_terminals" ->
            NotRouted(get_available_terminals(R, env, FALSE).reg, cur, hist, {}, FALSE)
      [] parsed_command.action = "switch_target" ->
            SwitchedTarget(set_target(R, env, cur, parsed_command.target), hist)
      [] parsed_command.action = "contextual_command" /\ shell_command # None ->
            RoutedAs(route_command(R, env, cur, hist, shell_command,
                                   parsed_command.target, r),
                     shell_command, {}, FALSE, None)
      [] parsed_command.action = "send_text" ->
            SendTextFound(get_terminal_by_name(R, env, parsed_command.target), env,
                          cur, hist, parsed_command.text, r)
      [] parsed_command.action = "command" /\ shell_command # None ->
            RoutedAs(route_command(R, env, cur, hist, shell_command, None, r),
                     shell_command, {}, FALSE, shell_command)
      [] OTHER -> NotRouted(R, cur, hist, {}, FALSE)

(***************************************************************************)
(* Inputs of the calls.                                                    *)
(***************************************************************************)
SessionIds == {"S1"}
Envs ==
    [termCount : 0..MaxTerminalWindows, itermSession : SessionIds \cup {None},
     warpCount : 0..MaxWarpWindows, vscodeUp : BOOLEAN]
NothingRuns == [termCount |-> 0, itermSession |-> None, warpCount |-> 0,
                vscodeUp |-> FALSE]

\* what the applications may answer to a call: anything when the call enumerates
\* them, and nothing to choose when it answers from the cache
EnvsAt(force_refresh) ==
    IF UseCache(Reg, force_refresh) THEN {NothingRuns} ELSE Envs

\* the same with no iTerm2 session open
EnvsNoITermAt(force_refresh) ==
    {env \in EnvsAt(force_refresh) : env.itermSession = None}

TargetNames == {"Local", "Terminal:1", "warp", "vscode", "nosuch"}
ExplicitTargets == {None, "terminal:1", "warp", "nosuch"}
ResolvedNames == {"warp:1", "WARP:1", "my warp:1", "terminal 1", "vscode", "nosuch"}
AliasInputs == {"Warp:1", "My Warp:1"}
AliasInputsWithEmpty == {"", "Warp:1"}
TerminalIds == {"Terminal:1", "Terminal:2", "Warp:1", "VSCode:integrated"}
Commands == {"ls", "sudo rm -rf /tmp"}
Texts == {"yes"}
ScriptRuns == {<<None, None>>, <<"success", "success">>, <<"success", None>>,
               <<"", "success">>, <<Raise, Raise>>}

\* what the user says to voice_exec_macos with what get_shell_command answers
Utterances ==
    {<<"show files", "ls">>, <<"wipe temp", "sudo rm -rf /tmp">>,
     <<"in warp, wipe temp", "sudo rm -rf /tmp">>, <<"hello", "# CONVERSATIONAL">>}
PromptWaits == {0, discovery_interval}

\* what parse_voice_command of voice_terminal_main returns
Parsed(action, target, text) == [action |-> action, target |-> target, text |-> text]
ParsedCommands ==
    {Parsed("sleep", None, "sleep"), Parsed("list_terminals", None, "list terminals"),
     Parsed("switch_target", "warp", "switch to warp"),
     Parsed("contextual_command", "Warp:1", "in warp, wipe temp"),
     Parsed("send_text", "warp", "yes"), Parsed("command", None, "wipe temp")}
ShellCommands == Commands \cup {None}

\* a step that is not a registry or router call
NoCall == [op |-> "none"]

(***************************************************************************)
(* Initial state: TerminalDiscovery() and CommandRouter(discovery) just    *)
(* constructed.  last_discovery is 0 and the clock is the epoch clock, so  *)
(* the cache age is not below discovery_interval.                          *)
(***************************************************************************)
Init ==
    /\ cache_age = MaxAge
    /\ cached_terminals = <<>>
    /\ user_aliases = <<>>
    /\ current_target = "local"
    /\ command_history = << >>
    /\ last = NoCall

\* d seconds pass
Tick(d) ==
    /\ cache_age + d <= MaxAge
    /\ cache_age' = cache_age + d
    /\ last' = NoCall
    /\ UNCHANGED <<cached_terminals, user_aliases, routerVars>>

SetReg(R) ==
    /\ cached_terminals' = R.cache
    /\ user_aliases' = R.aliases
    /\ cache_age' = R.age

(***************************************************************************)
(* The calls.                                                              *)
(***************************************************************************)
\* the effect on the registry of a call that returned got, and its record
Listed(force_refresh, env, got) ==
    /\ SetReg(got.reg)
    /\ last' = [op |-> "get_available_terminals", force_refresh |-> force_refresh,
                env |-> env, ret |-> got.terminals, calls |-> got.calls]
    /\ UNCHANGED routerVars

GetAvailableTerminals(force_refresh, env) ==
    Listed(force_refresh, env, get_available_terminals(Reg, env, force_refresh))

Resolved(name, got) ==
    /\ SetReg(got.reg)
    /\ last' = [op |-> "get_terminal_by_name", name |-> name, ret |-> got.result]
    /\ UNCHANGED routerVars

GetTerminalByName(name, env) ==
    Resolved(name, get_terminal_by_name(Reg, env, name))

AliasSet(terminal_id, alias, got) ==
    /\ SetReg(got.reg)
    /\ last' = [op |-> "set_terminal_alias", terminal_id |-> terminal_id,
                alias |-> alias, ret |-> got.result]
    /\ UNCHANGED routerVars

SetTerminalAlias(terminal_id, alias, env) ==
    AliasSet(terminal_id, alias, set_terminal_alias(Reg, env, terminal_id, alias))

AliasRemoved(alias, got) ==
    /\ SetReg(got.reg)
    /\ last' = [op |-> "remove_terminal_alias", alias |-> alias, ret |-> got.result]
    /\ UNCHANGED routerVars

RemoveTerminalAlias(alias) ==
    AliasRemoved(alias, remove_terminal_alias(Reg, alias))

TargetSet(target_name, got) ==
    /\ SetReg(got.reg)
    /\ current_target' = got.cur
    /\ last' = [op |-> "set_target", name |-> target_name, ret |-> got.result]
    /\ UNCHANGED command_history

SetTarget(target_name, env) ==
    TargetSet(target_name, set_target(Reg, env, current_target, target_name))

TargetGot(got) ==
    /\ SetReg(got.reg)
    /\ current_target' = got.cur
    /\ last' = [op |-> "get_current_target", ret |-> got.target,
                fallback_logged |-> got.fallback_logged]
    /\ UNCHANGED command_history

GetCurrentTarget(env) ==
    TargetGot(get_current_target(Reg, env, current_target))

\* the entries all histories hold together
RECURSIVE HistorySize(_, _)
HistorySize(hist, ids) ==
    IF ids = {} THEN 0
    ELSE LET id == CHOOSE x \in ids : TRUE
         IN  Len(hist[id]) + HistorySize(hist, ids \ {id})

\* the model stops recording once MaxHistory entries are held
HistoryRoom(hist) == HistorySize(hist, DOMAIN hist) <= MaxHistory

\* the script answers a call can meet: none when it returns before it sends
RunsFor(det) == IF det.early # <<>> THEN {<<None, None>>} ELSE ScriptRuns

\* the effect of a route_command or send_raw_text call and its record
Recorded(op, payload, target, got) ==
    /\ SetReg(got.reg)
    /\ current_target' = got.cur
    /\ command_history' = got.hist
    /\ last' = [op |-> op, payload |-> payload, target |-> target, ret |-> got.ret,
                window |-> got.window, deliveries |-> got.deliveries,
                validated |-> got.validated, fallback_logged |-> got.fallback_logged]

\* the same while the histories have room
Routed(op, payload, target, got) ==
    /\ HistoryRoom(got.hist)
    /\ Recorded(op, payload, target, got)

\* route_command having determined det: any command, any script answers
RouteCommandTo(det, target) ==
    \E command \in Commands, r \in RunsFor(det) :
        Routed("route_command", command, target,
               RouteTo(det, command_history, command, r))

RouteCommand(target, env) ==
    RouteCommandTo(DetermineTarget(Reg, env, current_target, target,
                                   "Use local execution"), target)

SendRawTextTo(det, target) ==
    \E text \in Texts, r \in RunsFor(det) :
        Routed("send_raw_text", text, target,
               SendTextTo(det, command_history, text, r))

SendRawText(target, env) ==
    SendRawTextTo(DetermineTarget(Reg, env, current_target, target,
                                  "Cannot send raw text to local terminal"), target)

\* the effect of a front-end step and its record
FrontEnd(op, did) ==
    /\ HistoryRoom(did.hist)
    /\ SetReg(did.reg)
    /\ current_target' = did.cur
    /\ command_history' = did.hist
    /\ last' = [op |-> op, routed |-> did.routed, payload |-> did.payload,
                window |-> did.window, deliveries |-> did.deliveries,
                validated |-> did.validated,
                explicit_confirmation |-> did.explicit_confirmation,
                local_executed |-> did.local_executed]

SessionMode(query, command, explicit, auto, wait, env, r) ==
    FrontEnd("session_mode",
             session_mode(Reg, env, current_target, command_history, query, command,
                          explicit, auto, wait, r))

HandleVoiceCommand(parsed_command, shell_command, env, r) ==
    FrontEnd("handle_voice_command",
             handle_voice_command(Reg, env, current_target, command_history,
                                  parsed_command, shell_command, r))

(***************************************************************************)
(* Specifications.                                                         *)
(***************************************************************************)
\* the router over the registry: targets, routing, raw text
Next ==
    \/ Tick(discovery_interval)
    \/ \E env \in EnvsAt(TRUE) : GetAvailableTerminals(TRUE, env)
    \/ \E name \in TargetNames, env \in EnvsAt(FALSE) : SetTarget(name, env)
    \/ \E env \in EnvsAt(FALSE) : GetCurrentTarget(env)
    \/ \E target \in ExplicitTargets, env \in EnvsAt(FALSE) : RouteCommand(target, env)
    \/ \E target \in ExplicitTargets, env \in EnvsAt(FALSE) : SendRawText(target, env)

Spec == Init /\ [][Next]_vars

\* the registry alone: discovery, the cache, aliases and name resolution
NextRegistry ==
    \/ Tick(discovery_interval)
    \/ \E env \in EnvsNoITermAt(TRUE) : GetAvailableTerminals(TRUE, env)
    \/ \E name \in ResolvedNames, env \in EnvsNoITermAt(FALSE) :
            GetTerminalByName(name, env)
    \/ \E id \in TerminalIds, alias \in AliasInputs, env \in EnvsNoITermAt(FALSE) :
            SetTerminalAlias(id, alias, env)
    \/ \E alias \in AliasInputs : RemoveTerminalAlias(alias)

SpecRegistry == Init /\ [][NextRegistry]_vars

\* the alias table alone, the empty alias among the inputs, with Terminal.app and
\* Warp windows only
EnvsTwoAppsAt(force_refresh) ==
    {env \in EnvsNoITermAt(force_refresh) : ~env.vscodeUp}

NextAliases ==
    \/ Tick(discovery_interval)
    \/ \E env \in EnvsTwoAppsAt(TRUE) : GetAvailableTerminals(TRUE, env)
    \/ \E name \in AliasInputsWithEmpty, env \in EnvsTwoAppsAt(FALSE) :
            GetTerminalByName(name, env)
    \/ \E id \in {"Terminal:1", "Warp:1"}, alias \in AliasInputsWithEmpty,
          env \in EnvsTwoAppsAt(FALSE) : SetTerminalAlias(id, alias, env)
    \/ \E alias \in AliasInputsWithEmpty : RemoveTerminalAlias(alias)

SpecAliases == Init /\ [][NextAliases]_vars

\* validate_command alone: every denylisted substring as written, in upper and
\* in lower case, and two harmless commands, against session windows with every
\* kind of process name, flagged remote by the backend or not
Elements(seq) == {seq[i] : i \in 1..Len(seq)}
DenylistedCommands ==
    LET patterns == Elements(dangerous_patterns) \cup Elements(remote_warning_patterns)
    IN  patterns \cup {Upper(x) : x \in patterns} \cup {LowerByChar(x) : x \in patterns}
ValidatedCommands == DenylistedCommands \cup {"ls -la", "echo hi"}
ProcessNames == {None, "zsh", "ssh", "SSH"}
ValidatedWindows ==
    {TerminalWindow("iTerm2:S1", "iTerm2", ITERM2, "session", process_name,
                    [session_id |-> "S1", window_number |-> 1, is_remote |-> remote], 0) :
        process_name \in ProcessNames, remote \in BOOLEAN}

InitValidate ==
    /\ cache_age = MaxAge
    /\ cached_terminals = <<>>
    /\ user_aliases = <<>>
    /\ current_target = "local"
    /\ command_history = << >>
    /\ \E command \in ValidatedCommands, terminal \in ValidatedWindows :
          last = [op |-> "validate_input", command |-> command, terminal |-> terminal]

ValidateCommand ==
    /\ last.op = "validate_input"
    /\ last' = [op |-> "validate_command", command |-> last.command,
                terminal |-> last.terminal,
                ret |-> validate_command(last.command, last.terminal)]
    /\ UNCHANGED <<registryVars, routerVars>>

NextValidate == ValidateCommand

SpecValidate == InitValidate /\ [][NextValidate]_vars

\* the environments a step may meet that takes wait seconds
EnvsWithin(wait) ==
    IF cache_age + wait < discovery_interval THEN {NothingRuns}
    ELSE {env \in Envs : env.itermSession = None /\ ~env.vscodeUp}

\* the two voice front-ends over one router, with Terminal.app and Warp windows
NextFrontEnd ==
    \/ Tick(discovery_interval)
    \/ \E env \in EnvsTwoAppsAt(TRUE) : GetAvailableTerminals(TRUE, env)
    \/ \E name \in {"Local", "warp"}, env \in EnvsTwoAppsAt(FALSE) :
            SetTarget(name, env)
    \/ \E utterance \in Utterances, explicit \in BOOLEAN, auto \in BOOLEAN,
          wait \in PromptWaits, r \in ScriptRuns :
            \E env \in EnvsWithin(wait) :
                SessionMode(utterance[1], utterance[2], explicit, auto, wait, env, r)
    \/ \E parsed_command \in ParsedCommands, shell_command \in ShellCommands,
          env \in EnvsTwoAppsAt(FALSE), r \in ScriptRuns :
            HandleVoiceCommand(parsed_command, shell_command, env, r)

SpecFrontEnd == Init /\ [][NextFrontEnd]_vars

\* the cache alone, second by second: forced and non-forced calls at every age
NextCache ==
    \/ Tick(1)
    \/ \E force_refresh \in BOOLEAN :
          \E env \in EnvsAt(force_refresh) : GetAvailableTerminals(force_refresh, env)

SpecCache == Init /\ [][NextCache]_vars

(***************************************************************************)
(* Properties of the router (Spec).                                        *)
(***************************************************************************)
\* the last step was a route_command call that sent something
RouteCommandSent == last.op = "route_command" /\ last.deliveries # <<>>

\* C1: whenever route_command hands a command to an adapter, it has validated
\* that command against that target earlier in the same call.
C1_ValidatedBeforeSend ==
    RouteCommandSent => <<last.payload, last.window.id>> \in last.validated

\* the last step was a call with no explicit target
NoExplicitTarget ==
    last.op \in {"route_command", "send_raw_text"} /\ last.target = None

\* C5: a route_command or send_raw_text call with no explicit target, made while
\* the current target is local, sends nothing, returns the local-execution signal
\* (route_command) or the invalid-target failure (send_raw_text), and changes
\* neither the histories nor the current target.
C5_LocalNeverSends ==
    [][current_target = "local" /\ NoExplicitTarget' =>
          /\ last'.deliveries = <<>>
          /\ (last'.op = "route_command"
                => last'.ret = <<FALSE, "Use local execution">>)
          /\ (last'.op = "send_raw_text"
                => last'.ret = <<FALSE, "Cannot send raw text to local terminal">>)
          /\ command_history' = command_history
          /\ current_target' = current_target]_vars

\* a route_command call with no explicit target has just answered "use local
\* execution" with the current target deliberately local
C5_Witness ==
    /\ NoExplicitTarget /\ last.op = "route_command"
    /\ ~last.fallback_logged /\ current_target = "local"
    /\ last.ret = <<FALSE, "Use local execution">>
    /\ cached_terminals # <<>>

\* the id is the id of no window of the cache
Vanished(id, cache) == \A i \in 1..Len(cache) : cache[i].id # id

\* C7: get_current_target called with current target X, when the registry
\* snapshot it reads no longer holds X, returns the local target and resets the
\* current target to local; and a local current target stays local through
\* every step that is not a successful set_target.
C7_StaleFallsBackToLocal ==
    [][/\ ((/\ last'.op = "get_current_target"
             /\ current_target # "local"
             /\ Vanished(current_target, cached_terminals'))
           => (last'.ret = LocalTarget /\ current_target' = "local"))
        /\ ((current_target = "local" /\ current_target' # "local")
           => (last'.op = "set_target" /\ last'.ret = TRUE))]_vars

\* get_current_target has just fallen back to local
C7_Witness ==
    /\ last.op = "get_current_target" /\ last.fallback_logged
    /\ current_target = "local" /\ last.ret = LocalTarget

\* C8: the value get_current_target (and route_command without an explicit
\* target) returns when it falls back from a stale current target differs from
\* the value it returns when the current target was set to local on purpose.
C8_FallbackObservable ==
    /\ ((last.op = "get_current_target" /\ last.fallback_logged)
          => last.ret # get_current_target(Reg, NothingRuns, "local").target)
    /\ ((last.op = "route_command" /\ last.target = None /\ last.fallback_logged)
          => last.ret # route_command(Reg, NothingRuns, "local", command_history,
                                      last.payload, None, <<None, None>>).ret)

(***************************************************************************)
(* Properties of the discovery cache (SpecCache).                          *)
(***************************************************************************)
\* C6: a non-forced get_available_terminals call made while the cache is younger
\* than discovery_interval calls no adapter and returns the cached terminals,
\* leaving cache and age as they were; a forced call, and a non-forced call at an
\* age of discovery_interval or more, calls the adapters and restarts the age.
C6_CacheFreshness ==
    [][last'.op = "get_available_terminals" =>
          IF ~last'.force_refresh /\ cache_age < discovery_interval
          THEN /\ last'.calls = <<>>
               /\ last'.ret = cached_terminals
               /\ cached_terminals' = cached_terminals
               /\ cache_age' = cache_age
          ELSE /\ last'.calls = AdapterCalls
               /\ last'.ret = cached_terminals'
               /\ cache_age' = 0]_vars

\* a non-forced call has just answered a non-empty list from a cache a few seconds
\* old without calling an adapter
C6_Witness ==
    /\ last.op = "get_available_terminals" /\ ~last.force_refresh
    /\ last.calls = <<>> /\ last.ret # <<>>
    /\ cache_age > 0 /\ cache_age < discovery_interval

(***************************************************************************)
(* Properties of the registry (SpecAliases, SpecRegistry).                 *)
(***************************************************************************)
\* C9: the alias table is one-to-one in every reachable state: no two entries
\* share an alias and no two entries share an id.
C9_AliasTableOneToOne ==
    \A i, j \in 1..Len(user_aliases) :
        i # j => /\ user_aliases[i][1] # user_aliases[j][1]
                 /\ user_aliases[i][2] # user_aliases[j][2]

\* the windows of the cache that the name matches by id, and by display name or
\* application name
IdMatches(name) ==
    {i \in 1..Len(cached_terminals) : Lower(cached_terminals[i].id) = Lower(name)}
FuzzyMatches(name) ==
    {i \in 1..Len(cached_terminals) :
        \/ Contains(Lower(name), Lower(display_name(cached_terminals[i])))
        \/ Contains(Lower(name), Lower(cached_terminals[i].app_name))}

\* the name is an alias of a window of the cache
AliasOfKnown(name) ==
    /\ DictHas(user_aliases, Lower(name))
    /\ ~Vanished(DictGet(user_aliases, Lower(name)), cached_terminals)

\* C10: get_terminal_by_name returns the window the alias table names whenever
\* the name is, case-insensitively, an alias of a known window, whatever else
\* matches by id or by title; with no alias entry for the name, a window whose
\* id is the name wins over every window that only matches by title, and a
\* title match wins over the ordinal and application-synonym rules.
C10_ResolutionPrecedence ==
    last.op = "get_terminal_by_name" =>
        /\ AliasOfKnown(last.name)
              => last.ret.id = DictGet(user_aliases, Lower(last.name))
        /\ (~DictHas(user_aliases, Lower(last.name)) /\ IdMatches(last.name) # {})
              => Lower(last.ret.id) = Lower(last.name)
        /\ (/\ ~DictHas(user_aliases, Lower(last.name))
             /\ IdMatches(last.name) = {} /\ FuzzyMatches(last.name) # {})
              => \E i \in FuzzyMatches(last.name) :
                    /\ last.ret = cached_terminals[i]
                    /\ \A j \in FuzzyMatches(last.name) : i <= j

\* a name that is the alias of one window and the id of another has just been
\* resolved to the aliased window
C10_Witness ==
    /\ last.op = "get_terminal_by_name" /\ AliasOfKnown(last.name)
    /\ \E i \in IdMatches(last.name) :
          cached_terminals[i].id # DictGet(user_aliases, Lower(last.name))
    /\ last.ret.id = DictGet(user_aliases, Lower(last.name))

(***************************************************************************)
(* Properties of validate_command (SpecValidate).                          *)
(***************************************************************************)
\* the command contains the pattern, letter case ignored
ContainsIgnoringCase(pattern, command) ==
    Contains(LowerByChar(pattern), LowerByChar(command))

\* C3: validate_command answers is_safe = FALSE for every command that contains,
\* letter case ignored, one of the seven substrings of the first denylist, on
\* every target.
C3_DenylistRejects ==
    (/\ last.op = "validate_command"
     /\ \E pattern \in Elements(dangerous_patterns) :
            ContainsIgnoringCase(pattern, last.command))
    => last.ret[1] = FALSE

\* C4: on a target that is a remote session, validate_command answers
\* is_safe = FALSE for every command that contains, letter case ignored, one of
\* the four substrings of the second denylist; and on any target it answers
\* is_safe = TRUE for a command that contains no substring of either denylist.
C4_RemoteDenylist ==
    last.op = "validate_command" =>
        /\ (/\ is_remote(last.terminal)
             /\ \E pattern \in Elements(remote_warning_patterns) :
                    ContainsIgnoringCase(pattern, last.command))
              => last.ret[1] = FALSE
        /\ (\A pattern \in Elements(dangerous_patterns)
                            \cup Elements(remote_warning_patterns) :
                    ~ContainsIgnoringCase(pattern, last.command))
              => last.ret[1] = TRUE

(***************************************************************************)
(* Properties of the front-ends (SpecFrontEnd).                            *)
(***************************************************************************)
\* the last step was a front-end step that called route_command for a command
\* which validate_command finds unsafe on the window the call determined
UnsafeRouted ==
    /\ last.op \in {"session_mode", "handle_voice_command"}
    /\ last.routed /\ last.window # NoWindow
    /\ ~validate_command(last.payload, last.window)[1]

\* C2: a front-end calls route_command for a command that validate_command finds
\* unsafe on the external target only after the user has explicitly confirmed it.
C2_UnsafeNeedsConfirmation == UnsafeRouted => last.explicit_confirmation

(***************************************************************************)
(* Properties of fuzzy resolution (SpecFuzzy).                             *)
(***************************************************************************)
\* the score get_terminal_suggestions gives window w for the query
MatchScore(query, w) ==
    LET query_lower == Lower(query)
        display == Lower(display_name(w))
        app_name == Lower(w.app_name)
    IN  IF query_lower = display \/ query_lower = app_name THEN 100
        ELSE IF StartsWith(display, query_lower) \/ StartsWith(app_name, query_lower)
        THEN 80
        ELSE IF Contains(query_lower, display) \/ Contains(query_lower, app_name)
        THEN 60
        ELSE IF Truthy(w.user_alias) /\ Contains(query_lower, Lower(w.user_alias))
        THEN 90
        ELSE 0

FuzzyNames == {"warp", "terminal", "my warp:1"}

\* name resolution over Terminal.app and Warp windows that may carry aliases
NextFuzzy ==
    \/ Tick(discovery_interval)
    \/ \E env \in EnvsTwoAppsAt(TRUE) : GetAvailableTerminals(TRUE, env)
    \/ \E name \in FuzzyNames, env \in EnvsTwoAppsAt(FALSE) : GetTerminalByName(name, env)
    \/ \E id \in {"Terminal:1", "Warp:1"}, alias \in AliasInputs,
          env \in EnvsTwoAppsAt(FALSE) : SetTerminalAlias(id, alias, env)

SpecFuzzy == Init /\ [][NextFuzzy]_vars

\* get_terminal_by_name has just resolved a name by the fuzzy rule
ResolvedByFuzzy ==
    /\ last.op = "get_terminal_by_name"
    /\ ~DictHas(user_aliases, Lower(last.name))
    /\ IdMatches(last.name) = {} /\ FuzzyMatches(last.name) # {}

\* C11: when get_terminal_by_name resolves by fuzzy match, the window returned
\* has the highest score of all windows (equality above prefix above
\* containment) and is the first discovered of the windows with that score.
C11_FuzzyBestScore ==
    ResolvedByFuzzy =>
        \E i \in 1..Len(cached_terminals) :
            /\ last.ret = cached_terminals[i]
            /\ \A j \in 1..Len(cached_terminals) :
                  /\ MatchScore(last.name, cached_terminals[j])
                        <= MatchScore(last.name, cached_terminals[i])
                  /\ (MatchScore(last.name, cached_terminals[j])
                        = MatchScore(last.name, cached_terminals[i])) => i <= j

(***************************************************************************)
(* Properties of the histories (SpecHistory): numbered commands sent to    *)
(* one Terminal.app window, as many as MaxDispatches.                      *)
(***************************************************************************)
MaxDispatches == 60

\* str(n) on two digits
NumStr(n) == DigitStr(n \div 10) \o DigitStr(n % 10)

\* the n-th command sent to a window
Numbered == [n \in 1..(MaxDispatches + 1) |-> "echo " \o NumStr(n)]
NumberOf(command) == CHOOSE n \in DOMAIN Numbered : Numbered[n] = command

\* how many commands have been sent to the id with success: the number of the
\* last one its history holds
Dispatched(hist, id) ==
    IF id \in DOMAIN hist /\ hist[id] # <<>>
    THEN NumberOf(hist[id][Len(hist[id])]) ELSE 0

EnvsTerminalOnlyAt(force_refresh) ==
    {env \in EnvsTwoAppsAt(force_refresh) : env.warpCount = 0}

\* route_command of the next numbered command, the target being determined
RouteNumberedTo(det, target, command) ==
    \E r \in RunsFor(det) :
        Recorded("route_command", command, target,
                 RouteTo(det, command_history, command, r))

RouteNumbered(target, id, env) ==
    /\ Dispatched(command_history, id) < MaxDispatches
    /\ RouteNumberedTo(DetermineTarget(Reg, env, current_target, target,
                                       "Use local execution"),
                       target, Numbered[Dispatched(command_history, id) + 1])

GetCommandHistory(terminal_id) ==
    /\ last' = [op |-> "get_command_history", terminal_id |-> terminal_id,
                ret |-> HistoryCopy(command_history, terminal_id).entries,
                shared |-> HistoryCopy(command_history, terminal_id).shared]
    /\ UNCHANGED <<registryVars, routerVars>>

\* the caller appends to the list get_command_history returned
MutateReturned ==
    /\ last.op = "get_command_history"
    /\ command_history' =
          IF last.shared
          THEN [command_history EXCEPT ![last.terminal_id] = Append(@, "mutated")]
          ELSE command_history
    /\ last' = [op |-> "mutate_returned", terminal_id |-> last.terminal_id]
    /\ UNCHANGED <<registryVars, current_target>>

NextHistory ==
    \/ Tick(discovery_interval)
    \/ \E env \in EnvsTerminalOnlyAt(TRUE) : GetAvailableTerminals(TRUE, env)
    \/ \E env \in EnvsTerminalOnlyAt(FALSE) : RouteNumbered("terminal:1", "Terminal:1", env)
    \/ \E id \in {"Terminal:1", "Warp:1"} : GetCommandHistory(id)
    \/ MutateReturned

SpecHistory == Init /\ [][NextHistory]_vars

\* the entries numbered n - k + 1 .. n, in order
MostRecent(n, k) == [i \in 1..k |-> Numbered[n - k + i]]

Min(a, b) == IF a < b THEN a ELSE b

\* the history of the id holds the most recent min(n, HistoryLimit) of the n
\* commands sent to it, in the order sent
HoldsMostRecent(hist, id) ==
    get_command_history(hist, id)
        = MostRecent(Dispatched(hist, id), Min(Dispatched(hist, id), HistoryLimit))

\* C12: every history holds at most 50 entries; after n successful dispatches to
\* an id its history, and what get_command_history returns for it, is the most
\* recent min(n, 50) commands in dispatch order; and a caller that changes the
\* returned list leaves the router's history as it was.
C12_HistoryBounded ==
    [][/\ \A id \in DOMAIN command_history' :
              /\ Len(command_history'[id]) <= HistoryLimit
              /\ HoldsMostRecent(command_history', id)
       /\ (last'.op = "route_command" /\ last'.ret[1])
              => (Dispatched(command_history', last'.window.id)
                    = Dispatched(command_history, last'.window.id) + 1)
       /\ (last'.op = "get_command_history")
              => (last'.ret = get_command_history(command_history', last'.terminal_id))
       /\ (last'.op = "mutate_returned")
              => (command_history' = command_history)]_vars

\* the sixtieth command has been sent and the history holds commands 11 to 60
C12_Witness ==
    /\ "Terminal:1" \in DOMAIN command_history
    /\ Len(command_history["Terminal:1"]) = HistoryLimit
    /\ Dispatched(command_history, "Terminal:1") = MaxDispatches
    /\ command_history["Terminal:1"][1] = Numbered[MaxDispatches - HistoryLimit + 1]

(***************************************************************************)
(* Properties of dispatch (Spec).                                          *)
(***************************************************************************)
\* the last step was a route_command or send_raw_text call
Dispatching == last.op \in {"route_command", "send_raw_text"}

Determined(w) ==
    [reg |-> Reg, cur |-> current_target, calls |-> <<>>, window |-> w,
     fallback_logged |-> FALSE, early |-> <<>>]

\* every script the bridge runs during the call fails or times out
AllScriptsFail == <<None, None>>

\* C14: for the window of every kind that route_command dispatches to, the call
\* in which every script execution fails or times out returns ok = FALSE and
\* records nothing in the history.
C14_ScriptFailureIsFailure ==
    (last.op = "route_command" /\ last.window # NoWindow) =>
        /\ ~RouteTo(Determined(last.window), command_history, last.payload,
                    AllScriptsFail).ret[1]
        /\ RouteTo(Determined(last.window), command_history, last.payload,
                   AllScriptsFail).hist = command_history

\* C15: one route_command call makes at most one delivery attempt of the command
\* to the target: after an attempt that reported failure it makes no second one.
C15_NoRetry ==
    last.op = "route_command" => Len(last.deliveries) <= 1

(***************************************************************************)
(* Properties of names that resolve to nothing (SpecNotFound): the router  *)
(* over a registry that holds aliases.                                     *)
(***************************************************************************)
NotFoundNames == {"Local", "warp", "my warp:1", "nosuch"}
NotFoundTargets == {None, "my warp:1", "nosuch"}

NextNotFound ==
    \/ Tick(discovery_interval)
    \/ \E env \in EnvsTwoAppsAt(TRUE) : GetAvailableTerminals(TRUE, env)
    \/ \E env \in EnvsTwoAppsAt(FALSE) : SetTerminalAlias("Warp:1", "My Warp:1", env)
    \/ \E name \in NotFoundNames, env \in EnvsTwoAppsAt(FALSE) : SetTarget(name, env)
    \/ \E target \in NotFoundTargets, env \in EnvsTwoAppsAt(FALSE) :
            RouteCommand(target, env)
    \/ \E target \in NotFoundTargets, env \in EnvsTwoAppsAt(FALSE) :
            SendRawText(target, env)

SpecNotFound == Init /\ [][NextNotFound]_vars

\* the name resolves to no window of the list the registry holds
ResolvesToNothing(R, name) ==
    ResolveIn([reg |-> R, terminals |-> R.cache, calls |-> <<>>], name).result
        = NoWindow

\* C16: when the name resolves to nothing, set_target returns FALSE, and
\* route_command and send_raw_text with that explicit name return (FALSE,
\* "Terminal '<name>' not found") and attempt no send; the current target, the
\* alias table and the histories are as before the call.
C16_NotFoundChangesNothing ==
    [][/\ (/\ last'.op = "set_target"
           /\ Lower(last'.name) \notin {"local", "current", "here"}
           /\ ResolvesToNothing(Reg', last'.name))
          => /\ last'.ret = FALSE
             /\ UNCHANGED <<current_target, user_aliases, command_history>>
       /\ (/\ Dispatching' /\ Truthy(last'.target)
           /\ ResolvesToNothing(Reg', last'.target))
          => /\ last'.ret = <<FALSE, "Terminal '" \o last'.target \o "' not found">>
             /\ last'.deliveries = <<>>
             /\ UNCHANGED <<current_target, user_aliases, command_history>>]_vars

\* route_command has just answered "not found" for a name that is the alias of a
\* window that is gone, the current target being a window
C16_Witness ==
    /\ last.op = "route_command" /\ last.target = "my warp:1"
    /\ DictHas(user_aliases, "my warp:1")
    /\ last.ret = <<FALSE, "Terminal 'my warp:1' not found">>
    /\ current_target # "local"

(***************************************************************************)
(* Properties of parse_contextual_command (SpecContextual).                *)
(***************************************************************************)
ContextualPhrases == {"warp", "api tab", "vs code", "nosuch"}
ContextualCommands == {"run tests", "ls -R"}

\* the query that names the phrase and the command after the prefix
Utterance(prefix, phrase, command) == prefix \o " " \o phrase \o ", " \o command

ContextualQueries ==
    {Utterance(prefix, phrase, command) :
        prefix \in {"in", "on"}, phrase \in ContextualPhrases,
        command \in ContextualCommands}
    \cup {"run tests", "ls -R", "in warp run tests"}

\* the effect on the registry of a parse_contextual_command call, and its record
ContextualParsed(query, got) ==
    /\ SetReg(got.reg)
    /\ last' = [op |-> "parse_contextual_command", query |-> query,
                ret |-> <<got.target, got.command>>]
    /\ UNCHANGED routerVars

ParseContextualCommand(query, env) ==
    ContextualParsed(query, parse_contextual_command(Reg, env, query))

NextContextual ==
    \/ Tick(discovery_interval)
    \/ \E env \in EnvsNoITermAt(TRUE) : GetAvailableTerminals(TRUE, env)
    \/ \E env \in EnvsNoITermAt(FALSE) : SetTerminalAlias("Warp:1", "api tab", env)
    \/ \E query \in ContextualQueries, env \in EnvsNoITermAt(FALSE) :
            ParseContextualCommand(query, env)

SpecContextual == Init /\ [][NextContextual]_vars

\* the id the registry resolves the phrase to
ResolvedId(R, phrase) ==
    ResolveIn([reg |-> R, terminals |-> R.cache, calls |-> <<>>], phrase).result.id

\* the query matches neither form of the grammar: no leading "in " or "on ", or
\* no comma
NoGrammar(query) ==
    \/ ~(StartsWith(LowerByChar(query), "in ") \/ StartsWith(LowerByChar(query), "on "))
    \/ IndexIn(",", query) = 0

\* C17: parse_contextual_command on "in <phrase>, <command>", the phrase being a
\* known alias or target name, returns (the id of that target, <command>); on a
\* query that does not match the grammar it returns (None, the query unchanged).
C17_ParseContextual ==
    last.op = "parse_contextual_command" =>
        /\ \A phrase \in ContextualPhrases, command \in ContextualCommands :
              (/\ last.query = Utterance("in", phrase, command)
               /\ ~ResolvesToNothing(Reg, phrase))
              => last.ret = <<ResolvedId(Reg, phrase), command>>
        /\ NoGrammar(last.query) => last.ret = <<None, last.query>>

\* the query of the other form, "on" for "in"
OnForm(query) == "on" \o From(query, 2)

\* C18: for the same target phrase and command phrase, "on P, C" returns the
\* same (target, remainder) as "in P, C".
C18_InAndOnAlike ==
    (/\ last.op = "parse_contextual_command"
     /\ StartsWith(last.query, "in ") /\ IndexIn(",", last.query) # 0
     /\ UseCache(Reg, FALSE))
    => LET on == parse_contextual_command(Reg, NothingRuns, OnForm(last.query))
       IN  <<on.target, on.command>> = last.ret

(***************************************************************************)
(* Properties of a refresh (SpecRegistry, SpecIdentity).                   *)
(***************************************************************************)
\* the aliases the table maps to the id
AliasesOf(id) ==
    {user_aliases[k][1] : k \in {k \in 1..Len(user_aliases) : user_aliases[k][2] = id}}

\* the last step was a get_available_terminals call that refreshed the cache
Refreshing == last.op = "get_available_terminals" /\ last.calls # <<>>

\* C19: after a refresh, every window of the new cache whose id the alias table
\* maps carries that alias in its user_alias field, whatever its backend.
C19_AliasSurvivesRefresh ==
    Refreshing =>
        \A i \in 1..Len(cached_terminals) :
            AliasesOf(cached_terminals[i].id) # {}
                => cached_terminals[i].user_alias \in AliasesOf(cached_terminals[i].id)

\* Terminal.app windows told apart by the custom title each keeps while it is
\* open; Terminal.app numbers the windows that are open from 1, front to back
PhysicalWindows == {"build", "deploy"}

\* the window orders Terminal.app may answer: the open windows, each once
WindowOrders ==
    {<<>>} \cup {<<a>> : a \in PhysicalWindows}
           \cup {order \in PhysicalWindows \X PhysicalWindows : order[1] # order[2]}

EnvsTitled ==
    {[termCount |-> Len(order), termTitles |-> order, itermSession |-> None,
      warpCount |-> 0, vscodeUp |-> FALSE] : order \in WindowOrders}

EnvsTitledAt(force_refresh) ==
    IF UseCache(Reg, force_refresh) THEN {NothingRuns} ELSE EnvsTitled

\* discovery cycles over Terminal.app windows that open, close and change order
NextIdentity ==
    \/ Tick(discovery_interval)
    \/ \E env \in EnvsTitledAt(TRUE) : GetAvailableTerminals(TRUE, env)
    \/ \E id \in {"Terminal:1", "Terminal:2"}, alias \in AliasInputs,
          env \in EnvsTitledAt(FALSE) : SetTerminalAlias(id, alias, env)
    \/ \E name \in {"my warp:1", "terminal 2"}, env \in EnvsTitledAt(FALSE) :
            GetTerminalByName(name, env)

SpecIdentity == Init /\ [][NextIdentity]_vars

\* C20: an id that two discovery cycles both report denotes the same physical
\* window in both.
C20_IdNeverReused ==
    [][\A i \in 1..Len(cached_terminals), j \in 1..Len(cached_terminals') :
          (cached_terminals[i].id = cached_terminals'[j].id)
              => (cached_terminals[i].window_title = cached_terminals'[j].window_title)
      ]_vars

(***************************************************************************)
(* Properties of set_terminal_alias (SpecAliases).                         *)
(***************************************************************************)
\* C21: set_terminal_alias on an id that is not among the known terminals
\* returns FALSE and leaves the alias table and the cached terminals unchanged;
\* on a known id it returns TRUE, the id keeps no alias it had before, and the
\* alias, in any letter case, resolves to that id.
C21_SetAliasContract ==
    [][last'.op = "set_terminal_alias" =>
          IF Vanished(last'.terminal_id, cached_terminals')
          THEN /\ last'.ret = FALSE
               /\ user_aliases' = user_aliases
               /\ (cache_age < discovery_interval)
                     => (cached_terminals' = cached_terminals)
          ELSE /\ last'.ret = TRUE
               /\ \A k \in 1..Len(user_aliases') :
                     (user_aliases'[k][2] = last'.terminal_id)
                         => (user_aliases'[k][1] = Lower(last'.alias))
               /\ ResolvedId(Reg', last'.alias) = last'.terminal_id
               /\ ResolvedId(Reg', Upper(last'.alias)) = last'.terminal_id]_vars

(***************************************************************************)
(* Properties of a refresh in which bridge calls raise (SpecFaults).       *)
(***************************************************************************)
EnvsFaulty ==
    {[termCount |-> env.termCount, itermSession |-> env.itermSession,
      warpCount |-> env.warpCount, vscodeUp |-> env.vscodeUp, raises |-> raises] :
        env \in Envs, raises \in SUBSET {AdapterCalls[i] : i \in 1..Len(AdapterCalls)}}

EnvsFaultyAt(force_refresh) ==
    IF UseCache(Reg, force_refresh) THEN {NothingRuns} ELSE EnvsFaulty

NextFaults ==
    \/ Tick(discovery_interval)
    \/ \E force_refresh \in BOOLEAN :
          \E env \in EnvsFaultyAt(force_refresh) :
              GetAvailableTerminals(force_refresh, env)

SpecFaults == Init /\ [][NextFaults]_vars

\* the ids of the windows of the list that belong to the backend
IdsOfKind(terminals, kind) ==
    {terminals[i].id : i \in {i \in 1..Len(terminals) : terminals[i].app_type = kind}}

\* the ids the backend reports in env when its call answers
IdsIn(env, kind) ==
    CASE kind = TERMINAL -> {"Terminal:" \o DigitStr(i) : i \in 1..env.termCount}
      [] kind = ITERM2 ->
            IF env.itermSession = None THEN {} ELSE {"iTerm2:" \o env.itermSession}
      [] kind = WARP -> {"Warp:" \o DigitStr(i) : i \in 1..env.warpCount}
      [] kind = VSCODE -> IF env.vscodeUp THEN {"VSCode:integrated"} ELSE {}

\* the bridge call that enumerates the backend
CallOf(kind) ==
    CASE kind = TERMINAL -> "get_terminal_windows"
      [] kind = ITERM2 -> "get_iterm2_sessions"
      [] kind = WARP -> "get_warp_windows"
      [] kind = VSCODE -> "is_application_running"

\* C22: in a refresh, a backend whose enumeration raises contributes no target,
\* every other backend contributes all of its targets, the list (which may be
\* empty) is returned and cached, and the call returns.
C22_FaultIsolated ==
    Refreshing =>
        /\ last.ret = cached_terminals
        /\ \A kind \in SupportedKinds :
              IdsOfKind(last.ret, kind) =
                 IF Raises(last.env, CallOf(kind)) THEN {} ELSE IdsIn(last.env, kind)

\* a refresh has just returned the Warp window although the Terminal.app call
\* raised with a window open
C22_Witness ==
    /\ Refreshing /\ Raises(last.env, "get_terminal_windows")
    /\ last.env.termCount > 0
    /\ IdsOfKind(cached_terminals, WARP) # {}
    /\ IdsOfKind(cached_terminals, TERMINAL) = {}

(***************************************************************************)
(* One thread refreshing while another reads (SpecThreads).  The registry  *)
(* takes no lock, so a thread switch may fall between any two statements   *)
(* that touch self.cached_terminals, self.last_discovery or                *)
(* self.user_aliases.  last keeps each thread's position and locals:       *)
(*   pc, terminals, elapsed   the refreshing thread: where it is in        *)
(*                            get_available_terminals, its list, and the   *)
(*                            seconds since it took current_time           *)
(*   reader, listed           the reading thread: whether its              *)
(*                            get_available_terminals passed the age test, *)
(*                            and the list it holds                        *)
(*   cycles, cache_cycle,     history: the list each refresh built, and    *)
(*   stamp_cycle              the refresh that wrote the cache and the one *)
(*                            that wrote last_discovery                    *)
(***************************************************************************)
MaxCycles == 2

ThreadNames == {"warp", "nosuch"}

InitThreads ==
    /\ cache_age = MaxAge
    /\ cached_terminals = <<>>
    /\ user_aliases = <<>>
    /\ current_target = "local"
    /\ command_history = << >>
    /\ last = [op |-> "<none>", pc |-> "idle", terminals |-> <<>>, elapsed |-> 0,
               reader |-> "idle", listed |-> <<>>, ret |-> None,
               cycles |-> << >>, cache_cycle |-> 0, stamp_cycle |-> 0]

\* d seconds pass, for the cache and for the refresh in progress
Elapse(d) ==
    /\ cache_age + d <= MaxAge
    /\ last.elapsed + d <= MaxAge
    /\ cache_age' = cache_age + d
    /\ last' = [last EXCEPT !.op = "<none>",
                            !.elapsed = IF last.pc = "idle" THEN 0 ELSE @ + d]
    /\ UNCHANGED <<cached_terminals, user_aliases, routerVars>>

\* the refreshing thread takes current_time and enumerates the backends
Enumerate(force_refresh, env) ==
    /\ last.pc = "idle"
    /\ Len(last.cycles) < MaxCycles
    /\ ~UseCache(Reg, force_refresh)
    /\ last' = [last EXCEPT !.op = "enumerate", !.pc = "enumerated",
                            !.terminals = Discover(user_aliases, env),
                            !.elapsed = 0,
                            !.cycles = Append(@, Discover(user_aliases, env))]
    /\ UNCHANGED <<registryVars, routerVars>>

\* self.cached_terminals = {...}
SwapCache ==
    /\ last.pc = "enumerated"
    /\ cached_terminals' = last.terminals
    /\ last' = [last EXCEPT !.op = "swap", !.pc = "swapped",
                            !.cache_cycle = Len(last.cycles)]
    /\ UNCHANGED <<cache_age, user_aliases, routerVars>>

\* self.last_discovery = current_time, and the return
StampDiscovery ==
    /\ last.pc = "swapped"
    /\ cache_age' = last.elapsed
    /\ last' = [last EXCEPT !.op = "stamp", !.pc = "idle", !.terminals = <<>>,
                            !.elapsed = 0, !.stamp_cycle = last.cache_cycle]
    /\ UNCHANGED <<cached_terminals, user_aliases, routerVars>>

\* the reading thread's get_available_terminals(False) finds the cache young
\* enough
ReaderChecksAge ==
    /\ last.reader = "idle"
    /\ UseCache(Reg, FALSE)
    /\ last' = [last EXCEPT !.op = "check", !.reader = "checked"]
    /\ UNCHANGED <<registryVars, routerVars>>

\* and it returns list(self.cached_terminals.values()): to the caller, or to
\* get_terminal_by_name and get_current_target, which go on with the list
ReaderLists(caller) ==
    /\ last.reader = "checked"
    /\ last' = [last EXCEPT !.op = caller,
                            !.reader = IF caller = "get_available_terminals"
                                       THEN "idle" ELSE "listed",
                            !.listed = cached_terminals,
                            !.ret = IF caller = "get_available_terminals"
                                    THEN cached_terminals ELSE None]
    /\ UNCHANGED <<registryVars, routerVars>>

\* what the reading thread's get_available_terminals returned to its caller
ReaderGot == [reg |-> Reg, terminals |-> last.listed, calls |-> <<>>]

\* get_terminal_by_name goes through its rules
ReaderResolves(name) ==
    /\ last.reader = "listed"
    /\ last' = [last EXCEPT !.op = "get_terminal_by_name", !.reader = "idle",
                            !.ret = ResolveIn(ReaderGot, name).result]
    /\ UNCHANGED <<registryVars, routerVars>>

\* set_target goes through get_terminal_by_name and sets current_target
ReaderSetsTarget(name) ==
    /\ last.reader = "listed"
    /\ current_target' = TargetFound(ResolveIn(ReaderGot, name), current_target).cur
    /\ last' = [last EXCEPT !.op = "set_target", !.reader = "idle",
                            !.ret = ResolveIn(ReaderGot, name).result]
    /\ UNCHANGED <<registryVars, command_history>>

\* get_current_target looks the current target up in the list
ReaderGetsCurrent ==
    /\ last.reader = "listed"
    /\ current_target # "local"
    /\ current_target' = FindCurrent(ReaderGot, current_target).cur
    /\ last' = [last EXCEPT !.op = "get_current_target", !.reader = "idle",
                            !.ret = FindCurrent(ReaderGot, current_target).target]
    /\ UNCHANGED <<registryVars, command_history>>

NextThreads ==
    \/ \E d \in {1, discovery_interval} : Elapse(d)
    \/ \E force_refresh \in BOOLEAN : \E env \in EnvsNoITermAt(TRUE) :
          Enumerate(force_refresh, env)
    \/ SwapCache
    \/ StampDiscovery
    \/ ReaderChecksAge
    \/ \E caller \in {"get_available_terminals", "get_terminal_by_name"} :
          ReaderLists(caller)
    \/ \E name \in ThreadNames : ReaderResolves(name)
    \/ \E name \in ThreadNames : ReaderSetsTarget(name)
    \/ ReaderGetsCurrent

SpecThreads == InitThreads /\ [][NextThreads]_vars

\* the list the refresh numbered cycle built; the cache is empty before the first
CycleList(cycle) == IF cycle = 0 THEN <<>> ELSE last.cycles[cycle]

\* C23: with one thread refreshing and another reading, the cache is at every
\* moment the whole list of one refresh, a list read is the whole list of one
\* refresh, and last_discovery is never the time of an older refresh than the
\* one the cache holds.
C23_ReadsSeeOneCycle ==
    /\ cached_terminals = CycleList(last.cache_cycle)
    /\ (last.op = "get_available_terminals")
          => (\E cycle \in 0..Len(last.cycles) : last.ret = CycleList(cycle))
    /\ last.stamp_cycle >= last.cache_cycle

(***************************************************************************)
(* Two threads recording a dispatch in the history of one id               *)
(* (SpecHistoryThreads).  _add_to_history takes no lock, so a thread       *)
(* switch may fall between its statements.  last keeps, for each thread,   *)
(* its position in _add_to_history (pc), the slice it holds (kept) and the *)
(* calls it has completed (done).                                          *)
(***************************************************************************)
MaxCallsPerThread == 2

Threads == {1, 2}

SharedId == "Terminal:1"

\* the command each thread dispatches
CommandOf == <<"ls", "pwd">>

\* the dispatches the router has recorded for the id before the threads start
Prefilled == {0, HistoryLimit - 1, HistoryLimit}

InitHistoryThreads ==
    /\ cache_age = MaxAge
    /\ cached_terminals = <<>>
    /\ user_aliases = <<>>
    /\ current_target = "local"
    /\ \E n \in Prefilled :
          command_history = IF n = 0 THEN << >>
                            ELSE [id \in {SharedId} |-> MostRecent(n, n)]
    /\ last = [op |-> "<none>",
               pc |-> [t \in Threads |-> "idle"],
               kept |-> [t \in Threads |-> <<>>],
               done |-> [t \in Threads |-> 0]]

\* the thread is at position pc and moves to position to
Step(t, op, pc, to) ==
    /\ last.pc[t] = pc
    /\ last' = [last EXCEPT !.op = op, !.pc[t] = to]

\* if terminal_id not in self.command_history:
TestsKey(t) ==
    /\ last.done[t] < MaxCallsPerThread
    /\ Step(t, "test", "idle",
            IF SharedId \in DOMAIN command_history THEN "append" ELSE "create")
    /\ UNCHANGED <<registryVars, routerVars>>

\* self.command_history[terminal_id] = []
CreatesList(t) ==
    /\ Step(t, "create", "create", "append")
    /\ command_history' = [id \in DOMAIN command_history \cup {SharedId} |->
                              IF id = SharedId THEN <<>> ELSE command_history[id]]
    /\ UNCHANGED <<registryVars, current_target>>

\* self.command_history[terminal_id].append(command)
AppendsCommand(t) ==
    /\ Step(t, "append", "append", "measure")
    /\ command_history' =
          [command_history EXCEPT ![SharedId] = Append(@, CommandOf[t])]
    /\ UNCHANGED <<registryVars, current_target>>

\* if len(self.command_history[terminal_id]) > 50: the call returns when not
MeasuresList(t) ==
    /\ last.pc[t] = "measure"
    /\ last' = IF Len(command_history[SharedId]) > HistoryLimit
               THEN [last EXCEPT !.op = "measure", !.pc[t] = "slice"]
               ELSE [last EXCEPT !.op = "_add_to_history", !.pc[t] = "idle",
                                 !.done[t] = @ + 1]
    /\ UNCHANGED <<registryVars, routerVars>>

\* self.command_history[terminal_id][-50:]
SlicesList(t) ==
    /\ last.pc[t] = "slice"
    /\ last' = [last EXCEPT !.op = "slice", !.pc[t] = "assign",
                   !.kept[t] = SubSeq(command_history[SharedId],
                                      Len(command_history[SharedId]) - HistoryLimit + 1,
                                      Len(command_history[SharedId]))]
    /\ UNCHANGED <<registryVars, routerVars>>

\* self.command_history[terminal_id] = <the slice>, and the call returns
AssignsSlice(t) ==
    /\ last.pc[t] = "assign"
    /\ command_history' = [command_history EXCEPT ![SharedId] = last.kept[t]]
    /\ last' = [last EXCEPT !.op = "_add_to_history", !.pc[t] = "idle",
                            !.kept[t] = <<>>, !.done[t] = @ + 1]
    /\ UNCHANGED <<registryVars, current_target>>

NextHistoryThreads ==
    \E t \in Threads :
        \/ TestsKey(t)
        \/ CreatesList(t)
        \/ AppendsCommand(t)
        \/ MeasuresList(t)
        \/ SlicesList(t)
        \/ AssignsSlice(t)

SpecHistoryThreads == InitHistoryThreads /\ [][NextHistoryThreads]_vars

\* how many entries of the list are the command
RECURSIVE Occurrences(_, _)
Occurrences(entries, command) ==
    IF entries = <<>> THEN 0
    ELSE (IF Head(entries) = command THEN 1 ELSE 0)
         + Occurrences(Tail(entries), command)

\* C24: when two threads record dispatches to one id, once both are out of
\* _add_to_history the history of the id holds an entry for every dispatch either
\* of them recorded, and at most 50 entries.
C24_NoEntryLost ==
    (\A t \in Threads : last.pc[t] = "idle" /\ last.done[t] > 0) =>
        /\ Len(command_history[SharedId]) <= HistoryLimit
        /\ \A t \in Threads :
              Occurrences(command_history[SharedId], CommandOf[t]) = last.done[t]

(***************************************************************************)
(* Properties of the voice_exec_macos flow (SpecFrontEnd).                 *)
(***************************************************************************)
\* the last step was a session_mode step that sent its text to a window
SessionDispatched ==
    /\ last.op = "session_mode"
    /\ last.routed /\ last.window # NoWindow /\ last.deliveries # <<>>

\* C25: in session_mode with terminal routing, the text validate_command_safety
\* validated for the utterance is the text route_command is then given for the
\* window, for a plain and for a contextual utterance.
C25_ValidatedIsDispatched ==
    SessionDispatched =>
        \A checked \in last.validated : checked[1] = last.payload

(***************************************************************************)
(* Properties of what parse_contextual_command returns (SpecContextual).   *)
(***************************************************************************)
\* the last call was a parse_contextual_command that returned a target
ContextualRecognised ==
    last.op = "parse_contextual_command" /\ last.ret[1] # None

\* the query after its first comma, as written, without surrounding whitespace
CommandPhrase(query) == Strip(SplitAtComma(query)[2])

\* C26: when parse_contextual_command returns a target, the command it returns is
\* the text of the query after the first comma, character for character, with
\* only the surrounding whitespace removed.
C26_RemainderAsWritten ==
    ContextualRecognised => last.ret[2] = CommandPhrase(last.query)

\* C27: when parse_contextual_command returns a target, it is the id of a terminal
\* the registry holds at that time, so that route_command with it as explicit
\* target, with no refresh in between, does not answer "not found".
C27_TargetIsKnown ==
    ContextualRecognised =>
        /\ ~Vanished(last.ret[1], cached_terminals)
        /\ UseCache(Reg, FALSE)
              => (DetermineTarget(Reg, NothingRuns, current_target, last.ret[1],
                                  "Use local execution").early
                    # <<FALSE, "Terminal '" \o last.ret[1] \o "' not found">>)

(***************************************************************************)
(* Properties of the cache against the alias table (SpecRegistry).         *)
(***************************************************************************)
\* the window carries the alias, letter case apart
Carries(w, alias) == Truthy(w.user_alias) /\ Lower(w.user_alias) = alias

\* C28: the cache and the alias table agree in every state: a cached window
\* carries an alias exactly when the alias table maps that alias to the window's
\* id, so that an alias moved to another id or removed is on no other window.
C28_CacheAgreesWithAliases ==
    \A i \in 1..Len(cached_terminals) :
        /\ Truthy(cached_terminals[i].user_alias)
              => (DictGet(user_aliases, Lower(cached_terminals[i].user_alias))
                    = cached_terminals[i].id)
        /\ \A k \in 1..Len(user_aliases) :
              (user_aliases[k][2] = cached_terminals[i].id)
                  => Carries(cached_terminals[i], user_aliases[k][1])

(***************************************************************************)
(* Properties of a name that resolves to nothing (SpecRegistry).           *)
(***************************************************************************)
\* C29: get_terminal_by_name returns None only when neither the alias rule nor
\* the id, fuzzy, ordinal and backend-synonym rules match a window the registry
\* holds; an alias of a window that has gone does not keep the other rules from
\* being tried.
C29_NoneOnlyWhenNoRuleMatches ==
    (last.op = "get_terminal_by_name" /\ last.ret = NoWindow)
        => (ResolveUnaliased(cached_terminals, last.name) = NoWindow)

(***************************************************************************)
(* get_terminal_suggestions and its properties (SpecSuggestions).          *)
(***************************************************************************)
SuggestionLimit == 5

RECURSIVE Scoring(_, _, _)
\* the windows of the list that get the score for the query, in the list's order
Scoring(terminals, query, score) ==
    IF terminals = <<>> THEN <<>>
    ELSE (IF MatchScore(query, Head(terminals)) = score
          THEN <<Head(terminals)>> ELSE <<>>)
         \o Scoring(Tail(terminals), query, score)

\* get_terminal_suggestions after its get_available_terminals call returned got:
\* the windows with a score above 0, sorted by score, highest first, windows of
\* equal score in the order of the list (the sort is stable), and the first five
Suggested(got, query) ==
    [reg |-> got.reg, calls |-> got.calls,
     result |-> SubSeq(Scoring(got.terminals, query, 100)
                          \o Scoring(got.terminals, query, 90)
                          \o Scoring(got.terminals, query, 80)
                          \o Scoring(got.terminals, query, 60),
                       1,
                       Min(SuggestionLimit,
                           Len(Scoring(got.terminals, query, 100)
                                  \o Scoring(got.terminals, query, 90)
                                  \o Scoring(got.terminals, query, 80)
                                  \o Scoring(got.terminals, query, 60))))]

get_terminal_suggestions(R, env, query) ==
    Suggested(get_available_terminals(R, env, FALSE), query)

SuggestionsGot(query, got) ==
    /\ SetReg(got.reg)
    /\ last' = [op |-> "get_terminal_suggestions", query |-> query,
                ret |-> got.result]
    /\ UNCHANGED routerVars

GetTerminalSuggestions(query, env) ==
    SuggestionsGot(query, get_terminal_suggestions(Reg, env, query))

SuggestionQueries == {"war", "warp", "term", "my", "1", "nosuch"}

NextSuggestions ==
    \/ Tick(discovery_interval)
    \/ \E env \in EnvsTwoAppsAt(TRUE) : GetAvailableTerminals(TRUE, env)
    \/ \E id \in {"Terminal:1", "Warp:1"}, alias \in AliasInputs,
          env \in EnvsTwoAppsAt(FALSE) : SetTerminalAlias(id, alias, env)
    \/ \E query \in SuggestionQueries, env \in EnvsTwoAppsAt(FALSE) :
            GetTerminalSuggestions(query, env)

SpecSuggestions == Init /\ [][NextSuggestions]_vars

\* the score of window w for the query when equality counts 100, the query
\* within the alias 90, a prefix 80 and containment 60
RankedScore(query, w) ==
    IF Lower(query) = Lower(display_name(w)) \/ Lower(query) = Lower(w.app_name)
    THEN 100
    ELSE IF Truthy(w.user_alias) /\ Contains(Lower(query), Lower(w.user_alias))
    THEN 90
    ELSE IF \/ StartsWith(Lower(display_name(w)), Lower(query))
            \/ StartsWith(Lower(w.app_name), Lower(query))
    THEN 80
    ELSE IF \/ Contains(Lower(query), Lower(display_name(w)))
            \/ Contains(Lower(query), Lower(w.app_name))
    THEN 60
    ELSE 0

\* where the window stands in the cache
PlaceOf(w) == CHOOSE i \in 1..Len(cached_terminals) : cached_terminals[i] = w

\* C30: get_terminal_suggestions returns at most 5 windows, each matching the
\* query, in non-increasing order of the score 100 for equality, 90 for the query
\* within the alias, 80 for a prefix and 60 for containment, windows of equal
\* score in discovery order, and leaves out no window with a higher score than
\* one it returns; so a window matched within its alias stands before one
\* matched only by prefix.
C30_SuggestionsRanked ==
    last.op = "get_terminal_suggestions" =>
        /\ Len(last.ret) <= SuggestionLimit
        /\ \A i \in 1..Len(last.ret) :
              /\ RankedScore(last.query, last.ret[i]) > 0
              /\ \E k \in 1..Len(cached_terminals) : cached_terminals[k] = last.ret[i]
        /\ \A i, j \in 1..Len(last.ret) :
              (i < j) =>
                 /\ RankedScore(last.query, last.ret[i])
                       >= RankedScore(last.query, last.ret[j])
                 /\ (RankedScore(last.query, last.ret[i])
                       = RankedScore(last.query, last.ret[j]))
                       => (PlaceOf(last.ret[i]) < PlaceOf(last.ret[j]))
        /\ \A k \in 1..Len(cached_terminals) :
              (\A i \in 1..Len(last.ret) : last.ret[i] # cached_terminals[k])
                 => \A i \in 1..Len(last.ret) :
                       RankedScore(last.query, cached_terminals[k])
                          <= RankedScore(last.query, last.ret[i])

====
